---- MODULE Spec2Model ----
(***************************************************************************)
(* A model of the nexa backend (anonaltis/nexa): the ownership-filtered    *)
(* CRUD routers over the document store, the chat-message persistence      *)
(* paths, the Design and Simulation agents' cache and rate limiter, the    *)
(* API-key handling of the LLM-facing components, and the auth router.     *)
(*                                                                         *)
(* Every "await" of a handler is a point where another request may run, so *)
(* a handler with several database calls is a process with one action per  *)
(* database call; a handler with one database call is one action.          *)
(***************************************************************************)
EXTENDS Integers, Sequences, FiniteSets, TLC

(***************************************************************************)
(* Bounds of the model.                                                    *)
(***************************************************************************)
\* Object ids the store hands out (projects, chat sessions, schematics).
MaxIds == 2
\* Requests that append messages, over a run.
MaxMsgs == 2

\* The callers: get_current_user yields the caller's e-mail, the owner id.
Users == {"alice", "bob"}
\* Request slots: requests that may be in flight at the same time.
Reqs == {"r1", "r2"}
\* In SpecCrud each caller has one request in flight at a time.
SlotOf(u) == IF u = "alice" THEN "r1" ELSE "r2"
\* Project ids of the PCB endpoints (any string is accepted there).
PcbProjects == {"p1"}

(***************************************************************************)
(* Texts.  A string is kept as its identity and its length, which is all   *)
(* that slicing ([:50]) and comparison need.                               *)
(***************************************************************************)
Text(t, n) == [tag |-> t, len |-> n, ell |-> FALSE]
NoneText == Text("None", 0)
NewChat == Text("New Chat", 8)
\* Values a caller may send as a name or a title.
Names == {Text("n1", 2), Text("n2", 2)}
\* Message contents a caller may send.
Contents == {Text("hi", 2), Text("long", 51)}
Roles == {"user", "assistant"}

\* The seed catalog (SEED_COMPONENTS), two entries of it.
SeedNames == <<"resistor", "led">>
\* No seed call in a slot.  at: the dict its insert_many has come to.
NotSeeding == [pc |-> "idle", at |-> 1]
\* No generate/validate/refine request in a slot.  calls: the model calls
\* made for the request so far, in order; status: the validator's verdict as
\* the code holds it; content: what the request returns.
NoFlow == [agent |-> "none", pc |-> "idle", calls |-> <<>>, status |-> "none",
           content |-> "none"]
\* No chat call in a slot.  tools: the tools of the model the call talks to;
\* sends: the messages sent to the model; executed: the last tool request
\* and what the tool did; function_result: what execute returned for it.
NoCall == [pc |-> "idle", session_id |-> "none", mode |-> "none", tools |-> {},
           current_turn |-> 0, sends |-> 0, function_call |-> "none",
           executed |-> <<"none", "none">>,
           function_result |-> [error |-> FALSE, message |-> "none",
                                raised |-> FALSE],
           final_response |-> "none"]
\* No live call in a slot.  attempt: the loop variable; calls: the live calls
\* made; quota: every one of them reported a rate-limit or quota condition;
\* content: what the request returns.
NoLive == [site |-> "none", pc |-> "idle", attempt |-> 0, calls |-> 0,
           quota |-> TRUE, content |-> "none", key |-> "none",
           use_cache |-> FALSE]
\* No update_skill_level call in a slot.  profile: the skill_level of the
\* profile object the call holds; new_level: what it computed.
NoSkill == [pc |-> "idle", user_id |-> "none", profile |-> "none",
            new_level |-> "none"]
\* The SPICE wrapper before SpiceService().  netlist: the netlist of the run;
\* result: what the last run returned ("raised": it did not return).
NoSpice == [pc |-> "new", has_ngspice |-> FALSE, client |-> FALSE,
            netlist |-> "none", result |-> "none", data |-> "none",
            ai_analysis |-> "none"]
\* No request to the vision router yet.  analysed: the vision agent's
\* analyze_image ran for the request.
NoVision == [endpoint |-> "none", mime_type |-> <<"none", "none">>,
             analysis_type |-> "none", status |-> 0, analysed |-> FALSE,
             description |-> "none"]
\* No question asked yet.  question: the keywords the question holds;
\* ai_response: the key of the playbook returned, or "text" of the model.
NoAsk == [question |-> {}, status |-> 0, ai_response |-> "none", mode |-> "none"]
\* A resistor: its two nodes and its value, in kilo-ohms.
Resistor(n1, n2, value) == [nodes |-> <<n1, n2>>, value |-> value]
\* A CircuitData.  opamp: the first OpAmp component and its node mapping
\* ("": no such key); resistors: the Resistor components in order; others:
\* the other component types present ("555": a component whose id holds
\* 555); supplies: the value in volts of the supply of an id, <<>> without
\* one; measured_outputs: "None" or "dict".
Circuit(present, non_inverting, inverting, output, resistors, others, VCC_POS, VCC_NEG, VIN, measured_outputs) ==
  [opamp |-> [present |-> present, non_inverting |-> non_inverting,
              inverting |-> inverting, output |-> output],
   resistors |-> resistors, others |-> others,
   supplies |-> [VCC_POS |-> VCC_POS, VCC_NEG |-> VCC_NEG, VIN |-> VIN],
   measured_outputs |-> measured_outputs]
\* No circuit received yet.
NoCircuit == [Circuit(FALSE, "", "", "", <<>>, {}, <<>>, <<>>, <<>>, "dict")
                EXCEPT !.measured_outputs = "no circuit"]
\* No analysis made.  raised: analyze did not return.
NoAnalysis == [by |-> "none", circuit_type |-> "none", faults |-> {},
               raised |-> FALSE]
\* No generate call of the core client in the slot.  wake: when its sleep
\* ends.
NoGen == [pc |-> "idle", attempt |-> 0, wake |-> 0, last_error |-> "none",
          result |-> "none"]

VARIABLES
  \* ---- the document store (db.db[...]) ----
  projects,        \* set of project documents
  chat_sessions,   \* set of chat-session documents
  schematics,      \* set of schematic documents
  pcb_designs,     \* set of PCB documents
  users,           \* sequence of user documents (insertion order)
  nextId,          \* next ObjectId the store hands out
  nextMsg,         \* next message id uuid4 hands out
  \* ---- requests in flight ----
  pend,            \* slot -> the handler occupying it and its locals
  \* ---- what the callers observe (history, not program state) ----
  resp,            \* the last step's caller and the response it sent, if any
  arrivals,        \* how many message requests arrived, and which returned
  \* ---- Design / Simulation agents ----
  now,             \* wall clock, seconds
  sim_cache,       \* SimulationAgentService._cache: entries [key, data, ts]
  sim_request_times,    \* SimulationAgentService._request_times
  design_cache,         \* DesignAgentService._cache
  design_request_times, \* DesignAgentService._request_times
  issued,          \* history: times of the requests issued within the window
  agentResp,       \* the last two responses of the agents
  llm,             \* the agents' is_mock: "mock" or "live"
  \* ---- configuration and the LLM-facing components ----
  components,      \* the component catalog: set of documents [id, name]
  SEED_COMPONENTS, \* the module-level list of seed dicts: [name, id], id 0
                   \* while the dict has no "_id" key
  seeding,         \* per request slot: where a seed_components call stands
  flow,            \* per request slot: a generate/validate/refine request
  gemini_chat_sessions, \* GeminiFunctionCalling._chat_sessions: the chat
                   \* objects by session id, each with the tools of its model
  fc,              \* per request slot: a GeminiFunctionCalling.chat call
  live,            \* per request slot: a request's live calls of the LLM
  gemini_cache,    \* GeminiService._cache, in insertion order
  user_profiles,   \* the user_profiles collection: skill_level by user id
  skill,           \* per request slot: an update_skill_level call
  common_mistakes, \* the user_profiles collection: common_mistakes by user id
  learning_profiles, \* LearningFunctions._user_profiles: common_mistakes by
                   \* user id
  temp_netlist,    \* the file temp_circuit.sp: "absent", or what it holds
  spice,           \* the SpiceService object and the run it is in
  vision,          \* the last request of the vision router and its response
  ask,             \* the last question to /api/pcb/ask and its response
  circuit_data,    \* the CircuitData the analyzer was made with
  analysis_result, \* what CircuitAnalyzer.analyze returned for it
  gemini_request_times, \* GeminiService._request_times
  gen,             \* per request slot: a GeminiService.generate call
  router,          \* SpecCrud: the router the callers address in this run
  env,             \* the environment variables that matter
  ready,           \* components that ran their initialisation
  clients,         \* components holding a live client
  llmCalls,        \* components that called the LLM service
  apiResp          \* the last response of an LLM-facing endpoint

dbVars == <<projects, chat_sessions, schematics, pcb_designs, nextId, nextMsg>>
reqVars == <<pend, resp, arrivals>>
agentVars == <<now, sim_cache, sim_request_times, design_cache,
               design_request_times, issued, agentResp, llm>>
svcVars == <<components, SEED_COMPONENTS, seeding, flow, gemini_chat_sessions,
             fc, live, gemini_cache, user_profiles, skill>>
\* The state of the learning profiles and of the analysis tools.
toolVars == <<common_mistakes, learning_profiles, temp_netlist, spice, vision,
              ask, circuit_data, analysis_result, gemini_request_times, gen>>
cfgVars == <<router, env, ready, clients, llmCalls, apiResp, svcVars, toolVars>>
vars == <<dbVars, users, reqVars, agentVars, cfgVars>>

(***************************************************************************)
(* The document store: find_one / update_one / delete_one filters.         *)
(***************************************************************************)
Ids == 1..MaxIds
\* find_one({"_id": id, "user_id": user})
Owned(coll, id, user) == {d \in coll : d.id = id /\ d.user_id = user}
\* find_one({"_id": id})
ById(coll, id) == {d \in coll : d.id = id}
\* find_one({"project_id": p, "user_id": user})
OwnedPcb(p, user) == {d \in pcb_designs : d.project_id = p /\ d.user_id = user}
\* The owner of the document a handler returns ("none": it returns no document).
OwnerOf(docs) == IF docs = {} THEN "none" ELSE (CHOOSE d \in docs : TRUE).user_id

\* A request slot that holds no handler.
Idle == [op |-> "idle", pc |-> "idle", user |-> "none", id |-> 0,
         val |-> NoneText, role |-> "none", flag |-> FALSE, pid |-> "none",
         arr |-> 0, after |-> {}]
Req(op, pc, user, id, val) == [Idle EXCEPT !.op = op, !.pc = pc, !.user = user,
                                          !.id = id, !.val = val]

\* A response.  owner: the owner of the document it carries; foreign: when it
\* was sent, a record under the addressed key belonged to another user;
\* removed: a message was removed from the session; first: a demo login that
\* found no demo account.
Reply(op, kind, user, status, docs, foreign) ==
  [op |-> op, kind |-> kind, user |-> user, status |-> status,
   owner |-> OwnerOf(docs), foreign |-> foreign, removed |-> FALSE,
   first |-> FALSE]
NoReply == [op |-> "none", kind |-> "none", user |-> "none", status |-> 0,
            owner |-> "none", foreign |-> FALSE, removed |-> FALSE,
            first |-> FALSE]
\* A step of user's handler that sends no response yet.
Quiet(user) == [NoReply EXCEPT !.user = user]
ForeignIn(coll, id, user) == \E d \in coll : d.id = id /\ d.user_id # user
ForeignPcb(p, user) == \E d \in pcb_designs : d.project_id = p /\ d.user_id # user

otherVars == <<users, arrivals, agentVars, cfgVars>>

(***************************************************************************)
(* api/projects.py                                                         *)
(***************************************************************************)
\* create_project: insert_one, then (after an await) find_one by _id.
create_project(r, u, v) ==
  /\ pend[r] = Idle
  /\ nextId <= MaxIds
  /\ projects' = projects \cup {[id |-> nextId, user_id |-> u, name |-> v]}
  /\ nextId' = nextId + 1
  /\ pend' = [pend EXCEPT ![r] = Req("create_project", "fetch", u, nextId, v)]
  /\ resp' = Quiet(u)
  /\ UNCHANGED <<chat_sessions, schematics, pcb_designs, nextMsg, otherVars>>

create_project_fetch(r) ==
  /\ pend[r].op = "create_project" /\ pend[r].pc = "fetch"
  /\ LET docs == ById(projects, pend[r].id)
     IN resp' = Reply("create", "project", pend[r].user,
                      IF docs = {} THEN 500 ELSE 200, docs, FALSE)
  /\ pend' = [pend EXCEPT ![r] = Idle]
  /\ UNCHANGED <<dbVars, otherVars>>

\* get_project: one find_one filtered by id and owner.
get_project(u, id) ==
  /\ LET docs == Owned(projects, id, u)
     IN resp' = Reply("get", "project", u, IF docs = {} THEN 404 ELSE 200,
                      docs, ForeignIn(projects, id, u))
  /\ UNCHANGED <<dbVars, pend, otherVars>>

\* The owner filter of update_project's update_one.
ProjectUpdateFilter(id, u) == Owned(projects, id, u)

\* update_project with at least one field set: update_one filtered by id and
\* owner.  modified_count is 0 when nothing matched, and may be 0 when the
\* document already holds the same values (updated_at has millisecond
\* resolution, so `same` is the store's choice).
update_project(r, u, id, v, same) ==
  /\ pend[r] = Idle
  /\ v # NoneText
  /\ LET hit == ProjectUpdateFilter(id, u)
         modified == hit # {} /\ ~(same /\ \A d \in hit : d.name = v)
     IN /\ projects' = (projects \ hit) \cup {[d EXCEPT !.name = v] : d \in hit}
        /\ pend' = [pend EXCEPT ![r] =
                      Req("update_project", IF modified THEN "fetch" ELSE "check",
                          u, id, v)]
  /\ resp' = Quiet(u)
  /\ UNCHANGED <<chat_sessions, schematics, pcb_designs, nextId, nextMsg,
                 otherVars>>

\* modified_count == 0: find_one filtered by id and owner decides Not-Found.
update_project_check(r) ==
  /\ pend[r].op = "update_project" /\ pend[r].pc = "check"
  /\ LET docs == Owned(projects, pend[r].id, pend[r].user)
     IN IF docs = {}
        THEN /\ resp' = Reply("update", "project", pend[r].user, 404, {},
                              ForeignIn(projects, pend[r].id, pend[r].user))
             /\ pend' = [pend EXCEPT ![r] = Idle]
        ELSE /\ resp' = Quiet(pend[r].user)
             /\ pend' = [pend EXCEPT ![r].pc = "fetch"]
  /\ UNCHANGED <<dbVars, otherVars>>

\* The final find_one of update_project: by id alone.
update_project_fetch(r) ==
  /\ pend[r].op = "update_project" /\ pend[r].pc = "fetch"
  /\ LET docs == ById(projects, pend[r].id)
     IN resp' = Reply("update", "project", pend[r].user,
                      IF docs = {} THEN 500 ELSE 200, docs,
                      ForeignIn(projects, pend[r].id, pend[r].user))
  /\ pend' = [pend EXCEPT ![r] = Idle]
  /\ UNCHANGED <<dbVars, otherVars>>

\* update_project with no field set: one find_one filtered by id and owner.
update_project_empty(u, id) ==
  /\ LET docs == Owned(projects, id, u)
     IN resp' = Reply("update", "project", u, IF docs = {} THEN 404 ELSE 200,
                      docs, ForeignIn(projects, id, u))
  /\ UNCHANGED <<dbVars, pend, otherVars>>

\* delete_project: one delete_one filtered by id and owner.
delete_project(u, id) ==
  /\ LET hit == Owned(projects, id, u)
     IN /\ projects' = projects \ hit
        /\ resp' = Reply("delete", "project", u, IF hit = {} THEN 404 ELSE 200,
                         {}, ForeignIn(projects, id, u))
  /\ UNCHANGED <<chat_sessions, schematics, pcb_designs, nextId, nextMsg, pend,
                 otherVars>>

(***************************************************************************)
(* api/chat_history.py                                                     *)
(***************************************************************************)
\* content[:50] + ("..." if len(content) > 50 else "")
AutoTitle(content) ==
  [tag |-> content.tag,
   len |-> IF content.len > 50 THEN 50 ELSE content.len,
   ell |-> content.len > 50]

\* A message document.  by, arr and after are history: the caller whose
\* request made it, that request's arrival number, and the requests that had
\* already returned when it arrived.
Message(mid, role, content, by, arr, after) ==
  [id |-> mid, role |-> role, content |-> content, by |-> by, arr |-> arr,
   after |-> after]

\* The locals of a request that will append messages to session sid.
Arriving(op, pc, u, sid, role, content) ==
  [Req(op, pc, u, sid, content) EXCEPT
     !.role = role, !.arr = arrivals.n + 1, !.after = arrivals.returned]
Arrived == [arrivals EXCEPT !.n = arrivals.n + 1]
Returned(r) == [arrivals EXCEPT !.returned = arrivals.returned \cup {pend[r].arr}]

\* A push that puts the new message first.
PushFront(msgs, m) == <<m>> \o msgs
\* {"$push": {"messages": message}}
PushMessage(msgs, m) == Append(msgs, m)

\* update_one({"_id": sid}, {"$push": ..., "$set": {... "title"?}}) on the
\* documents `hit`.
PushTo(hit, m, setTitle, title) ==
  {[d EXCEPT !.messages = PushMessage(d.messages, m),
             !.title = IF setTitle THEN title ELSE d.title] : d \in hit}

\* create_session: one insert_one.
create_session(u, t) ==
  /\ nextId <= MaxIds
  /\ chat_sessions' = chat_sessions \cup
       {[id |-> nextId, user_id |-> u,
         title |-> IF t = NoneText THEN NewChat ELSE t, messages |-> <<>>]}
  /\ nextId' = nextId + 1
  /\ resp' = Reply("create", "session", u, 200, {[user_id |-> u]}, FALSE)
  /\ UNCHANGED <<projects, schematics, pcb_designs, nextMsg, pend, otherVars>>

\* get_session: one find_one filtered by id and owner.
get_session(u, id) ==
  /\ LET docs == Owned(chat_sessions, id, u)
     IN resp' = Reply("get", "session", u, IF docs = {} THEN 404 ELSE 200,
                      docs, ForeignIn(chat_sessions, id, u))
  /\ UNCHANGED <<dbVars, pend, otherVars>>

\* A lookup that forgets the owner filter.
SessionLookupAnyOwner(id, u) == ById(chat_sessions, id)
\* The first find_one of update_session: filtered by id and owner.
SessionLookup(id, u) == Owned(chat_sessions, id, u)

\* update_session: find_one (owner-filtered), then update_one and find_one by
\* id alone.
update_session(r, u, id, t) ==
  /\ pend[r] = Idle
  /\ LET docs == SessionLookup(id, u)
     IN IF docs = {}
        THEN /\ resp' = Reply("update", "session", u, 404, {},
                              ForeignIn(chat_sessions, id, u))
             /\ pend' = pend
        ELSE /\ resp' = Quiet(u)
             /\ pend' = [pend EXCEPT ![r] = Req("update_session", "update", u, id, t)]
  /\ UNCHANGED <<dbVars, otherVars>>

update_session_update(r) ==
  /\ pend[r].op = "update_session" /\ pend[r].pc = "update"
  /\ LET hit == ById(chat_sessions, pend[r].id)
     IN chat_sessions' = (chat_sessions \ hit) \cup
          {[d EXCEPT !.title = IF pend[r].val = NoneText THEN d.title
                                ELSE pend[r].val] : d \in hit}
  /\ pend' = [pend EXCEPT ![r].pc = "fetch"]
  /\ resp' = Quiet(pend[r].user)
  /\ UNCHANGED <<projects, schematics, pcb_designs, nextId, nextMsg,
                 otherVars>>

\* serialize_session(None) is None, which the response model (dict) rejects.
update_session_fetch(r) ==
  /\ pend[r].op = "update_session" /\ pend[r].pc = "fetch"
  /\ LET docs == ById(chat_sessions, pend[r].id)
     IN resp' = Reply("update", "session", pend[r].user,
                      IF docs = {} THEN 500 ELSE 200, docs,
                      ForeignIn(chat_sessions, pend[r].id, pend[r].user))
  /\ pend' = [pend EXCEPT ![r] = Idle]
  /\ UNCHANGED <<dbVars, otherVars>>

\* delete_session: one delete_one filtered by id and owner.
delete_session(u, id) ==
  /\ LET hit == Owned(chat_sessions, id, u)
     IN /\ chat_sessions' = chat_sessions \ hit
        /\ resp' = Reply("delete", "session", u, IF hit = {} THEN 404 ELSE 200,
                         {}, ForeignIn(chat_sessions, id, u))
  /\ UNCHANGED <<projects, schematics, pcb_designs, nextId, nextMsg, pend,
                 otherVars>>

\* add_message (chat_history): find_one filtered by id and owner; the title
\* decision is taken from the document read here.
add_message(r, u, id, role, content) ==
  /\ pend[r] = Idle
  /\ arrivals.n < MaxMsgs
  /\ LET docs == Owned(chat_sessions, id, u)
     IN IF docs = {}
        THEN /\ resp' = Reply("add_message", "session", u, 404, {},
                              ForeignIn(chat_sessions, id, u))
             /\ UNCHANGED <<pend, arrivals>>
        ELSE /\ resp' = Quiet(u)
             /\ arrivals' = Arrived
             /\ pend' = [pend EXCEPT ![r] =
                  [Arriving("add_message", "push", u, id, role, content) EXCEPT
                     !.flag = \E d \in docs : d.title = NewChat]]
  /\ UNCHANGED <<dbVars, users, agentVars, cfgVars>>

\* add_message, after the await: update_one by id alone.
add_message_push(r) ==
  /\ pend[r].op = "add_message" /\ pend[r].pc = "push"
  /\ LET q == pend[r]
         m == Message(nextMsg, q.role, q.val, q.user, q.arr, q.after)
         hit == ById(chat_sessions, q.id)
     IN /\ chat_sessions' = (chat_sessions \ hit) \cup
             PushTo(hit, m, q.flag /\ q.role = "user", AutoTitle(q.val))
        /\ resp' = Reply("add_message", "session", q.user, 200, {},
                         ForeignIn(chat_sessions, q.id, q.user))
  /\ nextMsg' = nextMsg + 1
  /\ arrivals' = Returned(r)
  /\ pend' = [pend EXCEPT ![r] = Idle]
  /\ UNCHANGED <<projects, schematics, pcb_designs, nextId, users, agentVars,
                 cfgVars>>

\* {"$pull": {"messages": {"id": mid}}}
Pull(msgs, mid) == SelectSeq(msgs, LAMBDA m : m.id # mid)

\* delete_message: one update_one filtered by id and owner, pulling the
\* message and setting updated_at.  modified_count counts a matched document
\* that changed: it changes when a message is pulled or when updated_at gets
\* a new value (tick: the clock moved since the last write).
delete_message(u, id, mid, tick) ==
  /\ LET hit == Owned(chat_sessions, id, u)
         pulled == \E d \in hit : Pull(d.messages, mid) # d.messages
         modified == hit # {} /\ (pulled \/ tick)
     IN /\ chat_sessions' = (chat_sessions \ hit) \cup
             {[d EXCEPT !.messages = Pull(d.messages, mid)] : d \in hit}
        /\ resp' = [Reply("delete_message", "session", u,
                          IF modified THEN 200 ELSE 404, {},
                          ForeignIn(chat_sessions, id, u))
                    EXCEPT !.removed = pulled]
  /\ UNCHANGED <<projects, schematics, pcb_designs, nextId, nextMsg, pend,
                 otherVars>>

(***************************************************************************)
(* api/schematics.py                                                       *)
(***************************************************************************)
\* create_schematic: one insert_one.
create_schematic(u, v) ==
  /\ nextId <= MaxIds
  /\ schematics' = schematics \cup {[id |-> nextId, user_id |-> u, name |-> v]}
  /\ nextId' = nextId + 1
  /\ resp' = Reply("create", "schematic", u, 200, {[user_id |-> u]}, FALSE)
  /\ UNCHANGED <<projects, chat_sessions, pcb_designs, nextMsg, pend, otherVars>>

\* get_schematic, analyze_schematic, convert_to_pcb: one find_one filtered by
\* id and owner, and a reply computed from the document.
read_schematic(op, u, id) ==
  /\ LET docs == Owned(schematics, id, u)
     IN resp' = Reply(op, "schematic", u, IF docs = {} THEN 404 ELSE 200,
                      docs, ForeignIn(schematics, id, u))
  /\ UNCHANGED <<dbVars, pend, otherVars>>

\* update_schematic: find_one (owner-filtered), then update_one and find_one
\* by id alone.
update_schematic(r, u, id, v) ==
  /\ pend[r] = Idle
  /\ LET docs == Owned(schematics, id, u)
     IN IF docs = {}
        THEN /\ resp' = Reply("update", "schematic", u, 404, {},
                              ForeignIn(schematics, id, u))
             /\ pend' = pend
        ELSE /\ resp' = Quiet(u)
             /\ pend' = [pend EXCEPT ![r] = Req("update_schematic", "update", u, id, v)]
  /\ UNCHANGED <<dbVars, otherVars>>

update_schematic_update(r) ==
  /\ pend[r].op = "update_schematic" /\ pend[r].pc = "update"
  /\ LET hit == ById(schematics, pend[r].id)
     IN schematics' = (schematics \ hit) \cup
          {[d EXCEPT !.name = IF pend[r].val = NoneText THEN d.name
                               ELSE pend[r].val] : d \in hit}
  /\ pend' = [pend EXCEPT ![r].pc = "fetch"]
  /\ resp' = Quiet(pend[r].user)
  /\ UNCHANGED <<projects, chat_sessions, pcb_designs, nextId, nextMsg,
                 otherVars>>

\* schematic["_id"] on None raises TypeError: an unhandled server error.
update_schematic_fetch(r) ==
  /\ pend[r].op = "update_schematic" /\ pend[r].pc = "fetch"
  /\ LET docs == ById(schematics, pend[r].id)
     IN resp' = Reply("update", "schematic", pend[r].user,
                      IF docs = {} THEN 500 ELSE 200, docs,
                      ForeignIn(schematics, pend[r].id, pend[r].user))
  /\ pend' = [pend EXCEPT ![r] = Idle]
  /\ UNCHANGED <<dbVars, otherVars>>

\* delete_schematic: one delete_one filtered by id and owner.
delete_schematic(u, id) ==
  /\ LET hit == Owned(schematics, id, u)
     IN /\ schematics' = schematics \ hit
        /\ resp' = Reply("delete", "schematic", u, IF hit = {} THEN 404 ELSE 200,
                         {}, ForeignIn(schematics, id, u))
  /\ UNCHANGED <<projects, chat_sessions, pcb_designs, nextId, nextMsg, pend,
                 otherVars>>

(***************************************************************************)
(* api/pcb.py: the per-project get and save                                *)
(***************************************************************************)
\* get_pcb: one find_one filtered by project id and owner.
get_pcb(u, p) ==
  /\ LET docs == OwnedPcb(p, u)
     IN resp' = Reply("get", "pcb", u, IF docs = {} THEN 404 ELSE 200, docs,
                      ForeignPcb(p, u))
  /\ UNCHANGED <<dbVars, pend, otherVars>>

\* save_pcb: update_one(..., upsert=True) filtered by project id and owner.
\* The store applies an upsert as a query and, when nothing matched, an
\* insert of a new document; only a unique index on the filter fields makes
\* the pair exclusive of other upserts, and the application creates no
\* index.  This is the query: a matching document is updated in place.
save_pcb(r, u, p, v) ==
  /\ pend[r] = Idle
  /\ IF OwnedPcb(p, u) = {}
       THEN /\ pend' = [pend EXCEPT ![r] =
                          [Req("save_pcb", "insert", u, 0, v) EXCEPT !.pid = p]]
            /\ UNCHANGED pcb_designs
       ELSE /\ \E d \in OwnedPcb(p, u) :
                 pcb_designs' = (pcb_designs \ {d}) \cup {[d EXCEPT !.name = v]}
            /\ pend' = [pend EXCEPT ![r] =
                          [Req("save_pcb", "fetch", u, 0, v) EXCEPT !.pid = p]]
  /\ resp' = Quiet(u)
  /\ UNCHANGED <<projects, chat_sessions, schematics, nextId, nextMsg,
                 otherVars>>

\* save_pcb, the insert of an upsert whose query matched nothing: a new
\* document with a fresh _id.
save_pcb_insert(r) ==
  /\ pend[r].op = "save_pcb" /\ pend[r].pc = "insert"
  /\ nextId <= MaxIds
  /\ pcb_designs' = pcb_designs \cup
                      {[id |-> nextId, project_id |-> pend[r].pid,
                        user_id |-> pend[r].user, name |-> pend[r].val]}
  /\ nextId' = nextId + 1
  /\ pend' = [pend EXCEPT ![r].pc = "fetch"]
  /\ resp' = Quiet(pend[r].user)
  /\ UNCHANGED <<projects, chat_sessions, schematics, nextMsg, otherVars>>

\* save_pcb, after the await: find_one filtered by project id and owner (no
\* endpoint deletes a PCB document, so the upserted one is found).
save_pcb_fetch(r) ==
  /\ pend[r].op = "save_pcb" /\ pend[r].pc = "fetch"
  /\ resp' = Reply("update", "pcb", pend[r].user, 200,
                   OwnedPcb(pend[r].pid, pend[r].user),
                   ForeignPcb(pend[r].pid, pend[r].user))
  /\ pend' = [pend EXCEPT ![r] = Idle]
  /\ UNCHANGED <<dbVars, otherVars>>

(***************************************************************************)
(* The state after start-up: an empty store, no request in flight, fresh   *)
(* agents.                                                                 *)
(***************************************************************************)
\* No learning event recorded, no simulation run, the SPICE wrapper not
\* constructed.
InitTool ==
  /\ common_mistakes = [u \in Users |-> <<>>]
  /\ learning_profiles = [u \in Users |-> <<>>]
  /\ temp_netlist = "absent"
  /\ spice = NoSpice
  /\ vision = NoVision
  /\ ask = NoAsk
  /\ circuit_data = NoCircuit
  /\ analysis_result = NoAnalysis
  /\ gemini_request_times = <<>>
  /\ gen = [r \in Reqs |-> NoGen]
\* The services' module-level state when the process starts.
InitSvc ==
  /\ components = {}
  /\ SEED_COMPONENTS = [i \in 1..Len(SeedNames) |-> [name |-> SeedNames[i], id |-> 0]]
  /\ seeding = [r \in Reqs |-> NotSeeding]
  /\ flow = [r \in Reqs |-> NoFlow]
  /\ gemini_chat_sessions = {}
  /\ fc = [r \in Reqs |-> NoCall]
  /\ live = [r \in Reqs |-> NoLive]
  /\ gemini_cache = <<>>
  /\ user_profiles = [u \in Users |-> "absent"]
  /\ skill = [r \in Reqs |-> NoSkill]
  /\ InitTool
InitDb ==
  /\ projects = {} /\ chat_sessions = {} /\ schematics = {} /\ pcb_designs = {}
  /\ users = <<>>
  /\ nextId = 1 /\ nextMsg = 1
InitReq ==
  /\ pend = [r \in Reqs |-> Idle]
  /\ resp = NoReply
  /\ arrivals = [n |-> 0, returned |-> {}]
  /\ InitSvc
\* No response of an agent yet.
NoAnswer == [agent |-> "none", key |-> <<"none", "none">>, use_cache |-> FALSE,
             at |-> 0, success |-> FALSE, data |-> "none", from_cache |-> FALSE,
             is_mock |-> FALSE, error |-> "none", over |-> FALSE,
             again |-> FALSE, same |-> FALSE]
\* SimulationAgentService.__init__ / DesignAgentService.__init__: _init_cache
\* and _init_rate_limiter.
InitAgents ==
  /\ now = 0
  /\ sim_cache = {} /\ sim_request_times = <<>>
  /\ design_cache = {} /\ design_request_times = <<>>
  /\ issued = <<>> /\ agentResp = NoAnswer /\ llm = "none"
\* No environment read, no component initialised, no endpoint called.
NoEnv == [GEMINI_API_KEY |-> "", GOOGLE_API_KEY |-> "", DEMO_MODE |-> ""]
NoApi == [endpoint |-> "none", status |-> 0, source |-> "none"]
IdleCfg ==
  /\ env = NoEnv /\ ready = {} /\ clients = {} /\ llmCalls = {} /\ apiResp = NoApi
InitCfg ==
  /\ router = "none"
  /\ IdleCfg

(***************************************************************************)
(* SpecCrud: the record endpoints of the four routers, called by two       *)
(* users, each with one request in flight at a time.  A handler of one     *)
(* router reads and writes its own collection only, so a run addresses one *)
(* router, chosen at the start.                                            *)
(***************************************************************************)
Routers == {"projects", "chat_history", "schematics", "pcb"}

InitCrud ==
  /\ InitDb /\ InitReq /\ InitAgents
  /\ router \in Routers
  /\ IdleCfg

\* What the callers send in SpecCrud.
NewName == Text("n1", 2)
Renamed == {Text("n2", 2), NoneText}
Said == Text("hi", 2)

NextCrud ==
  \/ \E u \in Users :
        router = "projects" /\ create_project(SlotOf(u), u, NewName)
  \/ \E r \in Reqs :
        router = "projects" /\ create_project_fetch(r)
  \/ \E u \in Users, id \in Ids :
        router = "projects" /\ get_project(u, id)
  \/ \E u \in Users, id \in Ids, v \in Renamed, same \in BOOLEAN :
        router = "projects" /\ update_project(SlotOf(u), u, id, v, same)
  \/ \E r \in Reqs :
        router = "projects" /\ update_project_check(r)
  \/ \E r \in Reqs :
        router = "projects" /\ update_project_fetch(r)
  \/ \E u \in Users, id \in Ids :
        router = "projects" /\ update_project_empty(u, id)
  \/ \E u \in Users, id \in Ids :
        router = "projects" /\ delete_project(u, id)
  \/ \E u \in Users :
        router = "chat_history" /\ create_session(u, NoneText)
  \/ \E u \in Users, id \in Ids :
        router = "chat_history" /\ get_session(u, id)
  \/ \E u \in Users, id \in Ids, t \in Renamed :
        router = "chat_history" /\ update_session(SlotOf(u), u, id, t)
  \/ \E r \in Reqs :
        router = "chat_history" /\ update_session_update(r)
  \/ \E r \in Reqs :
        router = "chat_history" /\ update_session_fetch(r)
  \/ \E u \in Users, id \in Ids :
        router = "chat_history" /\ delete_session(u, id)
  \/ \E u \in Users, id \in Ids :
        router = "chat_history" /\ add_message(SlotOf(u), u, id, "user", Said)
  \/ \E r \in Reqs :
        router = "chat_history" /\ add_message_push(r)
  \/ \E u \in Users, id \in Ids, mid \in 1..MaxMsgs, tick \in BOOLEAN :
        router = "chat_history" /\ delete_message(u, id, mid, tick)
  \/ \E u \in Users :
        router = "schematics" /\ create_schematic(u, NewName)
  \/ \E op \in {"get", "analyze", "to_pcb"}, u \in Users, id \in Ids :
        router = "schematics" /\ read_schematic(op, u, id)
  \/ \E u \in Users, id \in Ids, v \in Renamed :
        router = "schematics" /\ update_schematic(SlotOf(u), u, id, v)
  \/ \E r \in Reqs :
        router = "schematics" /\ update_schematic_update(r)
  \/ \E r \in Reqs :
        router = "schematics" /\ update_schematic_fetch(r)
  \/ \E u \in Users, id \in Ids :
        router = "schematics" /\ delete_schematic(u, id)
  \/ \E u \in Users, p \in PcbProjects :
        router = "pcb" /\ get_pcb(u, p)
  \/ \E r \in Reqs, u \in Users, p \in PcbProjects, v \in Names :
        router = "pcb" /\ save_pcb(r, u, p, v)
  \/ \E r \in Reqs :
        router = "pcb" /\ save_pcb_insert(r)
  \/ \E r \in Reqs :
        router = "pcb" /\ save_pcb_fetch(r)

SpecCrud == InitCrud /\ [][NextCrud]_vars

\* C12: whatever the sequence or interleaving of PCB saves, the store holds
\* at most one PCB document per project id and owner.
C12_OnePcbPerProjectAndOwner ==
  \A d, e \in pcb_designs :
     d.project_id = e.project_id /\ d.user_id = e.user_id => d = e

\* The documents of a collection that do not belong to user u.
NotOf(coll, u) == {d \in coll : d.user_id # u}

\* C1 as stated: a get, update or delete by one user under a key where
\* another user's record exists is answered Not-Found -- for the project,
\* chat-session, schematic and PCB endpoints alike.
C1_ForeignIsNotFound == resp.foreign => resp.status = 404

\* C1, amended: on the project, chat-session and schematic endpoints a
\* request against another user's record is answered Not-Found; on every
\* endpoint, the PCB ones included, a step of one user's request leaves the
\* other users' records unchanged and a response never carries another
\* user's document.  (The PCB endpoints are keyed by project id and caller:
\* under a project id where another user has a PCB, a save succeeds on the
\* caller's own record and a get returns the caller's own record if any.)
C1_OwnershipIsolation ==
  [][/\ (resp'.foreign /\ resp'.kind # "pcb" => resp'.status = 404)
     /\ resp'.owner \in {"none", resp'.user}
     /\ NotOf(projects', resp'.user) = NotOf(projects, resp'.user)
     /\ NotOf(chat_sessions', resp'.user) = NotOf(chat_sessions, resp'.user)
     /\ NotOf(schematics', resp'.user) = NotOf(schematics, resp'.user)
     /\ NotOf(pcb_designs', resp'.user) = NotOf(pcb_designs, resp'.user)]_vars

\* C1's case: an update or delete against another user's record was answered
\* Not-Found.
C1_Witness ==
  /\ resp.foreign /\ resp.status = 404
  /\ resp.op \in {"update", "delete"}

(***************************************************************************)
(* The other paths that append to or read a session's messages:            *)
(* api/chat.py, services/memory_service.py as called by api/design.py and  *)
(* api/chat_v3.py, and the history read of the v2 chat.                    *)
(***************************************************************************)
\* What the assistant side writes: a mock or generated reply.
Answer == Text("reply", 5)

\* save_message_to_session (chat.py): update_one filtered by id and owner.
SaveFilter(sid, u) == Owned(chat_sessions, sid, u)

\* chat_message (chat.py) with a sessionId: the user message is saved first.
chat_message(r, u, sid, c) ==
  /\ pend[r] = Idle
  /\ arrivals.n < MaxMsgs
  /\ LET q == Arriving("chat_message", "reply", u, sid, "user", c)
         m == Message(nextMsg, "user", c, u, q.arr, q.after)
         hit == SaveFilter(sid, u)
     IN /\ chat_sessions' = (chat_sessions \ hit) \cup PushTo(hit, m, FALSE, NoneText)
        /\ pend' = [pend EXCEPT ![r] = q]
  /\ arrivals' = Arrived
  /\ nextMsg' = nextMsg + 1
  /\ resp' = Quiet(u)
  /\ UNCHANGED <<projects, schematics, pcb_designs, nextId, users, agentVars,
                 cfgVars>>

\* chat_message, once the reply (mock, generated, or the quota message) is
\* built: the assistant message is saved and the reply returned.
chat_message_reply(r) ==
  /\ pend[r].op = "chat_message" /\ pend[r].pc = "reply"
  /\ LET q == pend[r]
         m == Message(nextMsg, "assistant", Answer, q.user, q.arr, q.after)
         hit == SaveFilter(q.id, q.user)
     IN /\ chat_sessions' = (chat_sessions \ hit) \cup PushTo(hit, m, FALSE, NoneText)
        /\ resp' = Reply("chat", "session", q.user, 200, {},
                         ForeignIn(chat_sessions, q.id, q.user))
  /\ nextMsg' = nextMsg + 1
  /\ arrivals' = Returned(r)
  /\ pend' = [pend EXCEPT ![r] = Idle]
  /\ UNCHANGED <<projects, schematics, pcb_designs, nextId, users, agentVars,
                 cfgVars>>

\* MemoryService.add_message(role = "user"), first half: find_one by id alone,
\* reading the title.  The slot of a request of endpoint `op` after it.
MemoryFind(op, u, sid, c) ==
  [Arriving(op, "m_push", u, sid, "user", c) EXCEPT
     !.flag = \E d \in ById(chat_sessions, sid) : d.title = NewChat]

\* generate_design (api/design.py) with a session_id: no caller identity is
\* taken; the user message goes through MemoryService.add_message.
generate_design(r, u, sid, c) ==
  /\ pend[r] = Idle
  /\ arrivals.n < MaxMsgs
  /\ pend' = [pend EXCEPT ![r] = MemoryFind("generate_design", u, sid, c)]
  /\ arrivals' = Arrived
  /\ resp' = Quiet(u)
  /\ UNCHANGED <<dbVars, users, agentVars, cfgVars>>

\* chat_message (api/chat_v3.py), with an API key configured: the user_id of
\* the body is not used for the session; the same MemoryService.add_message.
chat_v3_message(r, u, sid, c) ==
  /\ pend[r] = Idle
  /\ arrivals.n < MaxMsgs
  /\ pend' = [pend EXCEPT ![r] = MemoryFind("chat_v3", u, sid, c)]
  /\ arrivals' = Arrived
  /\ resp' = Quiet(u)
  /\ UNCHANGED <<dbVars, users, agentVars, cfgVars>>

\* The filter of MemoryService.add_message's update_one: the id alone.
MemoryFilter(sid, u) == ById(chat_sessions, sid)

\* MemoryService.add_message(role = "user"), second half: update_one.
memory_add_message_push(r) ==
  /\ pend[r].op \in {"generate_design", "chat_v3"} /\ pend[r].pc = "m_push"
  /\ LET q == pend[r]
         m == Message(nextMsg, "user", q.val, q.user, q.arr, q.after)
         hit == MemoryFilter(q.id, q.user)
     IN chat_sessions' = (chat_sessions \ hit) \cup
                           PushTo(hit, m, q.flag, AutoTitle(q.val))
  /\ nextMsg' = nextMsg + 1
  /\ pend' = [pend EXCEPT ![r].pc = "a_push"]
  /\ resp' = Quiet(pend[r].user)
  /\ UNCHANGED <<projects, schematics, pcb_designs, nextId, users, arrivals,
                 agentVars, cfgVars>>

\* After the agent's answer: MemoryService.add_message(role = "assistant"),
\* one update_one, and the endpoint returns.
memory_add_message_assistant(r) ==
  /\ pend[r].op \in {"generate_design", "chat_v3"} /\ pend[r].pc = "a_push"
  /\ LET q == pend[r]
         m == Message(nextMsg, "assistant", Answer, q.user, q.arr, q.after)
         hit == MemoryFilter(q.id, q.user)
     IN /\ chat_sessions' = (chat_sessions \ hit) \cup PushTo(hit, m, FALSE, NoneText)
        /\ resp' = Reply(q.op, "session", q.user, 200, {},
                         ForeignIn(chat_sessions, q.id, q.user))
  /\ nextMsg' = nextMsg + 1
  /\ arrivals' = Returned(r)
  /\ pend' = [pend EXCEPT ![r] = Idle]
  /\ UNCHANGED <<projects, schematics, pcb_designs, nextId, users, agentVars,
                 cfgVars>>

\* MemoryService.get_conversation_history, as the v2 chat calls it with the
\* caller's session_id: find_one by id alone; the messages go into the reply.
get_conversation_history(u, sid) ==
  /\ resp' = Reply("history", "session", u, 200, ById(chat_sessions, sid),
                   ForeignIn(chat_sessions, sid, u))
  /\ UNCHANGED <<dbVars, pend, otherVars>>

(***************************************************************************)
(* SpecMsg: every path that appends to or reads a session's messages, with *)
(* requests of either caller overlapping in the two slots.                 *)
(***************************************************************************)
InitMsg == InitDb /\ InitReq /\ InitAgents /\ InitCfg

NextMsg ==
  \/ \E u \in Users : create_session(u, NoneText)
  \/ \E u \in Users, id \in Ids : get_session(u, id)
  \/ \E r \in Reqs, u \in Users, id \in Ids, role \in Roles :
        add_message(r, u, id, role, Said)
  \/ \E r \in Reqs : add_message_push(r)
  \/ \E r \in Reqs, u \in Users, id \in Ids : chat_message(r, u, id, Said)
  \/ \E r \in Reqs : chat_message_reply(r)
  \/ \E r \in Reqs, u \in Users, id \in Ids : generate_design(r, u, id, Said)
  \/ \E r \in Reqs, u \in Users, id \in Ids : chat_v3_message(r, u, id, Said)
  \/ \E r \in Reqs : memory_add_message_push(r)
  \/ \E r \in Reqs : memory_add_message_assistant(r)
  \/ \E u \in Users, id \in Ids : get_conversation_history(u, id)

SpecMsg == InitMsg /\ [][NextMsg]_vars

\* C2: every message of a session was appended by a request of the session's
\* owner, and a response carrying a session's messages goes to its owner.
C2_OwnerOnlyMessages ==
  /\ \A s \in chat_sessions : \A i \in 1..Len(s.messages) :
        s.messages[i].by = s.user_id
  /\ resp.owner \in {"none", resp.user}

\* C10 as stated: in every session the messages stand in the order in which
\* their requests arrived.
C10_ArrivalOrder ==
  \A s \in chat_sessions : \A i, j \in 1..Len(s.messages) :
     i < j => s.messages[i].arr <= s.messages[j].arr

\* C10, amended: a message whose request arrived after another request had
\* returned stands after that request's messages; the messages of requests
\* that overlap stand in the order in which their appends reached the store.
C10_ReturnedBeforeArrived ==
  \A s \in chat_sessions : \A i, j \in 1..Len(s.messages) :
     i < j => s.messages[j].arr \notin s.messages[i].after

\* C10's case: two requests, the second arrived after the first returned,
\* each with a message in the same session.
C10_Witness ==
  \E s \in chat_sessions : \E i, j \in 1..Len(s.messages) :
     i < j /\ s.messages[i].arr \in s.messages[j].after

(***************************************************************************)
(* services/simulation_agent.py and services/design_agent.py: the response *)
(* cache and the rate limiter.                                             *)
(***************************************************************************)
SimCacheTtl == 1800
SimRateLimitWindow == 60
SimMaxRequests == 20
DesignCacheTtl == 600
DesignMaxRequests == 30

\* The instants at which the clock is read: apart by nothing, by the window
\* (within both TTLs), by the longer TTL, and by a little less.
Instants == {0, 60, 1800}
Descriptions == {"rc filter", "led blinker"}
SimRequests == {<<"rc filter", "auto">>, <<"rc filter", "analog">>,
                <<"led blinker", "auto">>}
\* What the LLM service may answer to a simulation prompt: a JSON object
\* ("empty": the object {}), text that is no JSON, or a failed call.
SimOutputs == {"d1", "d2", "empty", "unparsable", "error"}
DesignOutputs == {"d1", "d2", "error"}

\* _detect_circuit_type, on the two descriptions: "led" is a digital keyword,
\* "rc filter" holds no keyword.
detect_circuit_type(desc) == IF desc = "led blinker" THEN "digital" ELSE "analog"
\* _get_cache_key: the digest of "description:type".
get_cache_key(desc, type) == <<desc, type>>
\* Python truth of a response dict.
Truthy(data) == data \notin {"empty", "none"}
\* _get_cached_response: the data stored under the key, if younger than the TTL.
get_cached_response(cache, key, t) ==
  {e.data : e \in {c \in cache : c.key = key /\ t - c.ts < SimCacheTtl}}
\* _cache_response: self._cache[key] = (response, now).
cache_response(cache, key, data, t) ==
  {c \in cache : c.key # key} \cup {[key |-> key, data |-> data, ts |-> t]}
\* The list comprehension of _check_rate_limit: the times after the cutoff.
InWindow(times, t) == SelectSeq(times, LAMBDA x : x > t - SimRateLimitWindow)
\* _check_rate_limit's answer, on the pruned list.
check_rate_limit(times) == Len(times) < SimMaxRequests
\* _record_request.
record_request(times, t) == Append(times, t)

\* A window that takes every call's time.
SimulateWindowAll(path, times, t) == record_request(InWindow(times, t), t)
\* _request_times after simulate, by the path it took: the cached return comes
\* before _check_rate_limit; the busy and the mock return come after it and
\* before _record_request.
SimulateWindow(path, times, t) ==
  IF path = "cached" THEN times
  ELSE IF path = "live" THEN record_request(InWindow(times, t), t)
  ELSE InWindow(times, t)

\* The TTL of an agent's cache.
TtlOf(agent) == IF agent = "design" THEN DesignCacheTtl ELSE SimCacheTtl
\* History: the request now answered repeats the one answered before it (the
\* same agent and key, both with use_cache, the first one successful) within
\* the TTL.
Again(agent, key, use_cache, t) ==
  /\ agentResp.agent = agent /\ agentResp.key = key
  /\ use_cache /\ agentResp.use_cache
  /\ agentResp.success
  /\ t - agentResp.at < TtlOf(agent)

\* simulate: no await between its reads and writes of the cache and the
\* request times (the mock path sleeps, touching neither afterwards).
simulate(desc, st, use_cache, out) ==
  /\ router = "simulation"
  /\ LET type == IF st = "auto" THEN detect_circuit_type(desc) ELSE st
         key == get_cache_key(desc, type)
         cached == IF use_cache THEN get_cached_response(sim_cache, key, now) ELSE {}
         path == IF \E d \in cached : Truthy(d) THEN "cached"
                 ELSE IF ~check_rate_limit(InWindow(sim_request_times, now)) THEN "busy"
                 ELSE IF llm = "mock" THEN "mock"
                 ELSE "live"
         parsed == path = "live" /\ out \notin {"unparsable", "error"}
         data == CASE path = "cached" -> CHOOSE d \in cached : TRUE
                   [] path = "busy" -> "none"
                   [] path = "mock" -> "mock"
                   [] OTHER -> IF out = "unparsable" THEN "none"
                               ELSE IF out = "error" THEN "mock" ELSE out
         a == [agent |-> "simulation", key |-> key, use_cache |-> use_cache,
               at |-> now,
               success |-> ~(path = "busy" \/ (path = "live" /\ out = "unparsable")),
               data |-> data,
               from_cache |-> path = "cached",
               is_mock |-> path = "mock" \/ (path = "live" /\ out = "error"),
               error |-> IF path = "busy" THEN "rate limit"
                         ELSE IF path = "live" /\ out = "unparsable" THEN "parse"
                         ELSE "none",
               over |-> Len(InWindow(issued, now)) >= SimMaxRequests,
               again |-> Again("simulation", key, use_cache, now),
               same |-> data = agentResp.data]
     IN /\ sim_request_times' = SimulateWindow(path, sim_request_times, now)
        /\ sim_cache' = IF parsed /\ use_cache
                        THEN cache_response(sim_cache, key, out, now)
                        ELSE sim_cache
        /\ agentResp' = a
  /\ issued' = Append(InWindow(issued, now), now)
  /\ UNCHANGED <<dbVars, users, reqVars, now, design_cache,
                 design_request_times, llm, cfgVars>>

\* _get_intelligent_response: a fixed answer per query.
MockDesign(q) == "mock"

\* DesignAgentService.generate_design, as api/design.py calls it without a
\* session: use_cache is not read, _cache and _request_times are not touched,
\* and the result has no "is_cached" entry.  success: a design came back, not
\* the "Error: ..." content of the except clause.
agent_generate_design(q, use_cache, out) ==
  /\ router = "design"
  /\ agentResp' =
       [agent |-> "design", key |-> <<q, "design">>, use_cache |-> use_cache,
        at |-> now, success |-> ~(llm = "live" /\ out = "error"),
        data |-> IF llm = "mock" THEN MockDesign(q) ELSE out,
        again |-> Again("design", <<q, "design">>, use_cache, now),
        same |-> agentResp.data = (IF llm = "mock" THEN MockDesign(q) ELSE out),
        from_cache |-> FALSE, is_mock |-> llm = "mock",
        error |-> IF llm = "live" /\ out = "error" THEN "agent" ELSE "none",
        over |-> Len(InWindow(issued, now)) >= DesignMaxRequests]
  /\ issued' = Append(InWindow(issued, now), now)
  /\ UNCHANGED <<dbVars, users, reqVars, now, sim_cache, sim_request_times,
                 design_cache, design_request_times, llm, cfgVars>>

\* Time passes.
Tick(t) ==
  /\ t > now
  /\ now' = t
  /\ UNCHANGED <<dbVars, users, reqVars, sim_cache, sim_request_times,
                 design_cache, design_request_times, issued, agentResp, llm,
                 cfgVars>>

\* The requests issued within the window ending now.
Recent == Len(InWindow(issued, now))

(***************************************************************************)
(* SpecAgents: one agent, mock or live, called with a few requests per     *)
(* window while the clock moves: the cache.                                *)
(***************************************************************************)
MaxRecent == 2

InitAgentsRun ==
  /\ InitDb /\ InitReq
  /\ now = 0
  /\ sim_cache = {} /\ sim_request_times = <<>>
  /\ design_cache = {} /\ design_request_times = <<>>
  /\ issued = <<>> /\ agentResp = NoAnswer
  /\ llm \in {"mock", "live"}
  /\ router \in {"simulation", "design"}
  /\ IdleCfg

NextAgents ==
  \/ \E rq \in SimRequests, use_cache \in BOOLEAN, out \in SimOutputs :
        Recent <= MaxRecent /\ simulate(rq[1], rq[2], use_cache, out)
  \/ \E q \in Descriptions, use_cache \in BOOLEAN, out \in DesignOutputs :
        Recent <= MaxRecent /\ agent_generate_design(q, use_cache, out)
  \/ \E t \in Instants : Tick(t)

SpecAgents == InitAgentsRun /\ [][NextAgents]_vars

(***************************************************************************)
(* SpecRate: one agent, mock or live, called with one request up to once   *)
(* more than its ceiling per window: the rate limiter.                     *)
(***************************************************************************)
RateOutputs == {"d1", "error"}

NextRate ==
  \/ \E use_cache \in BOOLEAN, out \in RateOutputs :
        Recent <= SimMaxRequests /\ simulate("rc filter", "auto", use_cache, out)
  \/ \E out \in RateOutputs :
        Recent <= DesignMaxRequests /\ agent_generate_design("rc filter", TRUE, out)
  \/ \E t \in Instants : Tick(t)

SpecRate == InitAgentsRun /\ [][NextRate]_vars

\* C3: a request answered after an identical one, both with use_cache and
\* within the TTL, carries the first one's payload and the cached flag.
C3_SecondCallIsCached ==
  agentResp.again => agentResp.from_cache /\ agentResp.same

C5_OverCeilingIsBusy ==
  agentResp.over => ~agentResp.success /\ agentResp.error = "rate limit"

(***************************************************************************)
(* The components that read an API key from the environment, and the       *)
(* endpoints that answer through them.                                     *)
(***************************************************************************)
\* An environment variable: unset, the sentinel, or a key of the service.
KeyValues == {"", "MOCK", "key"}
Envs == [GEMINI_API_KEY : KeyValues, GOOGLE_API_KEY : KeyValues,
         DEMO_MODE : {"", "true"}]
\* Python's `a or b` on strings.
Or(a, b) == IF a # "" THEN a ELSE b

\* api/chat.py, module level: the if/elif chain, then `if GENAI_API_KEY:`
\* builds a client again, whatever the chain decided.
chat_client(e) ==
  LET chain == IF e.GEMINI_API_KEY = "MOCK" THEN FALSE
               ELSE IF e.GEMINI_API_KEY # "" THEN TRUE
               ELSE e.GOOGLE_API_KEY # ""
  IN IF e.GEMINI_API_KEY # "" THEN TRUE ELSE chain
\* services/pcb_generator.py, module level.
pcb_generator_client(e) ==
  IF e.GEMINI_API_KEY # "" /\ e.GEMINI_API_KEY # "MOCK" THEN TRUE
  ELSE e.GOOGLE_API_KEY # ""
\* SimulationAgentService._init_api: not is_mock.
simulation_client(e) ==
  LET api_key == Or(e.GOOGLE_API_KEY, e.GEMINI_API_KEY)
  IN ~(api_key = "" \/ e.DEMO_MODE = "true")
\* DesignAgentService._init_api, VisionAgent._init_api and
\* OrchestratorAgent._init_api: not is_mock.
agent_client(e) ==
  LET api_key == Or(e.GEMINI_API_KEY, e.GOOGLE_API_KEY)
  IN ~(api_key = "" \/ api_key = "MOCK" \/ e.DEMO_MODE = "true")
\* GeminiService._init_client.
gemini_service_client(e) ==
  LET api_key == Or(e.GOOGLE_API_KEY, e.GEMINI_API_KEY)
  IN ~(api_key = "" \/ api_key = "MOCK")

\* What the initialisations and the endpoints below leave alone.
startFrame == <<dbVars, users, reqVars, agentVars, router, env, svcVars, toolVars>>

\* api/chat.py is imported.
load_chat ==
  /\ "chat" \notin ready
  /\ ready' = ready \cup {"chat"}
  /\ clients' = IF chat_client(env) THEN clients \cup {"chat"} ELSE clients
  /\ UNCHANGED <<startFrame, llmCalls, apiResp>>

\* services/pcb_generator.py is imported.
load_pcb_generator ==
  /\ "pcb_generator" \notin ready
  /\ ready' = ready \cup {"pcb_generator"}
  /\ clients' = IF pcb_generator_client(env) THEN clients \cup {"pcb_generator"} ELSE clients
  /\ UNCHANGED <<startFrame, llmCalls, apiResp>>

\* The first get_simulation_agent() builds the service.
get_simulation_agent ==
  /\ "simulation_agent" \notin ready
  /\ ready' = ready \cup {"simulation_agent"}
  /\ clients' = IF simulation_client(env) THEN clients \cup {"simulation_agent"} ELSE clients
  /\ UNCHANGED <<startFrame, llmCalls, apiResp>>

\* The first get_design_agent() builds the service.
get_design_agent ==
  /\ "design_agent" \notin ready
  /\ ready' = ready \cup {"design_agent"}
  /\ clients' = IF agent_client(env) THEN clients \cup {"design_agent"} ELSE clients
  /\ UNCHANGED <<startFrame, llmCalls, apiResp>>

\* The first get_vision_agent() builds the service.
get_vision_agent ==
  /\ "vision_agent" \notin ready
  /\ ready' = ready \cup {"vision_agent"}
  /\ clients' = IF agent_client(env) THEN clients \cup {"vision_agent"} ELSE clients
  /\ UNCHANGED <<startFrame, llmCalls, apiResp>>

\* The first get_orchestrator_agent() builds the service.
get_orchestrator_agent ==
  /\ "orchestrator" \notin ready
  /\ ready' = ready \cup {"orchestrator"}
  /\ clients' = IF agent_client(env) THEN clients \cup {"orchestrator"} ELSE clients
  /\ UNCHANGED <<startFrame, llmCalls, apiResp>>

\* The first get_gemini_service() builds the service.
get_gemini_service ==
  /\ "gemini_service" \notin ready
  /\ ready' = ready \cup {"gemini_service"}
  /\ clients' = IF gemini_service_client(env) THEN clients \cup {"gemini_service"} ELSE clients
  /\ UNCHANGED <<startFrame, llmCalls, apiResp>>

\* An endpoint answers through a component: with local data when the
\* component holds no client, else after a call to the LLM service.
Called(c) == IF c \in clients THEN llmCalls \cup {c} ELSE llmCalls
Sent(c, endpoint, source) ==
  [endpoint |-> endpoint, status |-> 200,
   source |-> IF c \in clients THEN source ELSE "mock"]
\* What a call to the LLM service leads to in the response: the generated
\* answer, or the fallback of the except clause.
LlmOutcomes == {"llm", "fallback"}

\* chat_message (api/chat.py) without a sessionId: the mock reply if there is
\* no client, else the generated reply, or the quota message or the mock
\* reply with a note.
chat_message_reply_only(out) ==
  /\ "chat" \in ready
  /\ llmCalls' = Called("chat")
  /\ apiResp' = Sent("chat", "chat", out)
  /\ UNCHANGED <<startFrame, ready, clients>>

\* run_simulation -> SimulationAgentService.simulate.
run_simulation(out) ==
  /\ "simulation_agent" \in ready
  /\ llmCalls' = Called("simulation_agent")
  /\ apiResp' = Sent("simulation_agent", "simulation", out)
  /\ UNCHANGED <<startFrame, ready, clients>>

\* generate_design (api/design.py) without a session_id.
design_reply_only(out) ==
  /\ "design_agent" \in ready
  /\ llmCalls' = Called("design_agent")
  /\ apiResp' = Sent("design_agent", "design", out)
  /\ UNCHANGED <<startFrame, ready, clients>>

\* analyze_image / analyze_base64_image with an image.
analyze_image(out) ==
  /\ "vision_agent" \in ready
  /\ llmCalls' = Called("vision_agent")
  /\ apiResp' = Sent("vision_agent", "vision", out)
  /\ UNCHANGED <<startFrame, ready, clients>>

\* chat_message (api/chat_v3.py): the key is read per request; without one the
\* handler raises, with one genai is configured and the model called, and a
\* failed call is raised as a server error.
chat_v3_reply(ok) ==
  LET api_key == env.GEMINI_API_KEY
  IN /\ IF api_key = ""
        THEN /\ apiResp' = [endpoint |-> "chat_v3", status |-> 500, source |-> "none"]
             /\ UNCHANGED <<ready, clients, llmCalls>>
        ELSE /\ ready' = ready \cup {"chat_v3"}
             /\ clients' = clients \cup {"chat_v3"}
             /\ llmCalls' = llmCalls \cup {"chat_v3"}
             /\ apiResp' = [endpoint |-> "chat_v3",
                            status |-> IF ok THEN 200 ELSE 500,
                            source |-> IF ok THEN "llm" ELSE "none"]
     /\ UNCHANGED startFrame

\* analyze_circuit_text (api/diagnostics.py): the key is read per request;
\* without one the mock analysis, with one a client is built and called, and
\* a failed call falls back to the mock analysis.
analyze_circuit_text(out) ==
  LET api_key == Or(env.GOOGLE_API_KEY, env.GEMINI_API_KEY)
  IN /\ IF api_key = ""
        THEN /\ apiResp' = [endpoint |-> "diagnostics", status |-> 200, source |-> "mock"]
             /\ UNCHANGED <<ready, clients, llmCalls>>
        ELSE /\ ready' = ready \cup {"diagnostics"}
             /\ clients' = clients \cup {"diagnostics"}
             /\ llmCalls' = llmCalls \cup {"diagnostics"}
             /\ apiResp' = [endpoint |-> "diagnostics", status |-> 200, source |-> out]
     /\ UNCHANGED startFrame

(***************************************************************************)
(* SpecKeys: the process starts under some environment; components         *)
(* initialise and endpoints are called.                                    *)
(***************************************************************************)
InitKeys ==
  /\ InitDb /\ InitReq /\ InitAgents
  /\ router = "none"
  /\ env \in Envs
  /\ ready = {} /\ clients = {} /\ llmCalls = {} /\ apiResp = NoApi

NextKeys ==
  \/ load_chat
  \/ load_pcb_generator
  \/ get_simulation_agent
  \/ get_design_agent
  \/ get_vision_agent
  \/ get_orchestrator_agent
  \/ get_gemini_service
  \/ \E out \in LlmOutcomes : chat_message_reply_only(out)
  \/ \E out \in LlmOutcomes : run_simulation(out)
  \/ \E out \in LlmOutcomes : design_reply_only(out)
  \/ \E out \in LlmOutcomes : analyze_image(out)
  \/ \E ok \in BOOLEAN : chat_v3_reply(ok)
  \/ \E out \in LlmOutcomes : analyze_circuit_text(out)

SpecKeys == InitKeys /\ [][NextKeys]_vars

\* C6: with neither key set, every response of the chat, design, simulation
\* and vision endpoints is a 200 built from local data.
C6_NoCredentialWellFormed ==
  env.GEMINI_API_KEY = "" /\ env.GOOGLE_API_KEY = "" /\ apiResp.endpoint # "none"
    => apiResp.status = 200 /\ apiResp.source = "mock"

\* C7: when every key that is set is "MOCK", no component holds a live
\* client and none has called the LLM service.
C7_MockKeyStaysOffline ==
  ( /\ {env.GEMINI_API_KEY, env.GOOGLE_API_KEY} \subseteq {"", "MOCK"}
    /\ "MOCK" \in {env.GEMINI_API_KEY, env.GOOGLE_API_KEY} )
  => clients = {} /\ llmCalls = {}

(***************************************************************************)
(* api/auth.py: sign-up and demo login.                                    *)
(***************************************************************************)
MaxUsers == 3
demo_email == "demo@example.com"
Emails == {"ann@example.com", demo_email}
\* The names api/auth.py binds at module level that its handlers use.
AuthNames == {"timedelta", "UserCreate", "Token", "User", "UserInDB",
              "get_password_hash", "verify_password", "create_access_token",
              "ACCESS_TOKEN_EXPIRE_MINUTES", "db", "router", "status",
              "HTTPException"}
\* users.find_one({"email": email})
FindUser(email) == {i \in 1..Len(users) : users[i].email = email}
\* The projects demo_login seeds.
DemoProjects(first) ==
  {[id |-> first, user_id |-> demo_email, name |-> Text("n1", 2)],
   [id |-> first + 1, user_id |-> demo_email, name |-> Text("n2", 2)]}

\* signup: find_one by e-mail; a hit is the duplicate-email error.
signup(r, email) ==
  /\ pend[r] = Idle
  /\ IF FindUser(email) # {}
     THEN /\ resp' = Reply("signup", "user", email, 400, {}, FALSE)
          /\ UNCHANGED pend
     ELSE /\ resp' = Quiet(email)
          /\ pend' = [pend EXCEPT ![r] = Req("signup", "insert", email, 0, NoneText)]
  /\ UNCHANGED <<dbVars, otherVars>>

\* signup, after the await: insert_one, and the token is returned.
signup_insert(r) ==
  /\ pend[r].op = "signup" /\ pend[r].pc = "insert"
  /\ Len(users) < MaxUsers
  /\ users' = Append(users, [email |-> pend[r].user])
  /\ resp' = Reply("signup", "user", pend[r].user, 200, {}, FALSE)
  /\ pend' = [pend EXCEPT ![r] = Idle]
  /\ UNCHANGED <<dbVars, arrivals, agentVars, cfgVars>>

\* demo_login: find_one; with the account present the token is returned.
\* Without it the user document is built first, and `datetime.utcnow()` in
\* it is evaluated with `datetime` unbound in the module: the NameError ends
\* the request as a server error before insert_one and insert_many.
demo_login ==
  /\ IF FindUser(demo_email) # {}
     THEN /\ resp' = Reply("demo_login", "user", demo_email, 200, {}, FALSE)
          /\ UNCHANGED <<users, projects, nextId>>
     ELSE IF "datetime" \in AuthNames
     THEN /\ users' = Append(users, [email |-> demo_email])
          /\ projects' = projects \cup DemoProjects(nextId)
          /\ nextId' = nextId + 2
          /\ resp' = [Reply("demo_login", "user", demo_email, 200, {}, FALSE)
                        EXCEPT !.first = TRUE]
     ELSE /\ resp' = [Reply("demo_login", "user", demo_email, 500, {}, FALSE)
                        EXCEPT !.first = TRUE]
          /\ UNCHANGED <<users, projects, nextId>>
  /\ UNCHANGED <<chat_sessions, schematics, pcb_designs, nextMsg, pend,
                 arrivals, agentVars, cfgVars>>

\* login_for_access_token: find_one, and the password check.
login_for_access_token(email, good) ==
  /\ resp' = Reply("login", "user", email,
                   IF FindUser(email) # {} /\ good THEN 200 ELSE 401, {}, FALSE)
  /\ UNCHANGED <<dbVars, pend, otherVars>>

(***************************************************************************)
(* SpecAuth: sign-ups in the two slots, logins and demo logins.            *)
(***************************************************************************)
InitAuth == InitDb /\ InitReq /\ InitAgents /\ InitCfg

NextAuth ==
  \/ \E r \in Reqs, email \in Emails : signup(r, email)
  \/ \E r \in Reqs : signup_insert(r)
  \/ demo_login
  \/ \E email \in Emails, good \in BOOLEAN : login_for_access_token(email, good)

SpecAuth == InitAuth /\ [][NextAuth]_vars

\* C8: a demo login that found no demo account returns the token, and after
\* it the demo account and exactly two projects of it exist.
C8_FirstDemoLoginProvisions ==
  resp.op = "demo_login" /\ resp.first
    => /\ resp.status = 200
       /\ FindUser(demo_email) # {}
       /\ Cardinality({p \in projects : p.user_id = demo_email}) = 2

\* C9: no two user records carry the same e-mail.
C9_OneUserPerEmail ==
  \A i, j \in 1..Len(users) : users[i].email = users[j].email => i = j

(***************************************************************************)
(* SpecTitle: one caller appending messages of two different contents to   *)
(* her sessions through every append path: the auto title.                 *)
(***************************************************************************)
NextTitle ==
  \/ create_session("alice", NoneText)
  \/ \E r \in Reqs, id \in Ids, role \in Roles, c \in Contents :
        add_message(r, "alice", id, role, c)
  \/ \E r \in Reqs : add_message_push(r)
  \/ \E r \in Reqs, id \in Ids, c \in Contents : chat_message(r, "alice", id, c)
  \/ \E r \in Reqs : chat_message_reply(r)
  \/ \E r \in Reqs, id \in Ids, c \in Contents : generate_design(r, "alice", id, c)
  \/ \E r \in Reqs : memory_add_message_push(r)
  \/ \E r \in Reqs : memory_add_message_assistant(r)

SpecTitle == InitMsg /\ [][NextTitle]_vars

\* C11: a session created with the default title is only ever retitled from
\* the first user message of its list (the first 50 characters, with an
\* ellipsis when the message is longer), never from a later message,
\* however the appends interleave.
C11_TitleFromFirstUserMessage ==
  \A s \in chat_sessions :
     LET userMessages == SelectSeq(s.messages, LAMBDA m : m.role = "user")
     IN  s.title # NewChat
           => /\ userMessages # <<>>
              /\ s.title = AutoTitle(userMessages[1].content)

(***************************************************************************)
(* services/component_service.py: seeding the component catalog.           *)
(* insert_many gives every dict that has no "_id" a new one, in place, and *)
(* sends the dicts as they are when it encodes them; the driver runs it on *)
(* a worker thread, and the dicts are the module-level SEED_COMPONENTS     *)
(* that every call shares.                                                 *)
(***************************************************************************)
\* seed_components: count_documents({}), and the early return on a count
\* above zero.
seed_components(r) ==
  /\ seeding[r].pc = "idle"
  /\ IF components # {}
       THEN /\ resp' = Reply("seed", "component", "none", 200, {}, FALSE)
            /\ UNCHANGED seeding
       ELSE /\ seeding' = [seeding EXCEPT ![r].pc = "insert"]
            /\ resp' = NoReply
  /\ UNCHANGED <<dbVars, users, pend, arrivals, agentVars, router, env, ready,
                 clients, llmCalls, apiResp, gemini_cache, user_profiles, skill,
                 components, SEED_COMPONENTS, flow,
                 gemini_chat_sessions, fc, live, toolVars>>

\* insert_many, on its thread, at one dict: the test '"_id" not in document'.
\* After the last dict the documents are executed.
insert_many_check(r) ==
  /\ seeding[r].pc = "insert"
  /\ seeding' = [seeding EXCEPT ![r] =
        IF SEED_COMPONENTS[seeding[r].at].id = 0
          THEN [@ EXCEPT !.pc = "assign"]
          ELSE IF seeding[r].at = Len(SEED_COMPONENTS)
                 THEN [@ EXCEPT !.pc = "execute"]
                 ELSE [@ EXCEPT !.at = @ + 1]]
  /\ resp' = NoReply
  /\ UNCHANGED <<dbVars, users, pend, arrivals, agentVars, router, env, ready,
                 clients, llmCalls, apiResp, gemini_cache, user_profiles, skill,
                 components, SEED_COMPONENTS, flow,
                 gemini_chat_sessions, fc, live, toolVars>>

\* insert_many: document["_id"] = ObjectId() for a dict that passed the test.
insert_many_assign(r) ==
  /\ seeding[r].pc = "assign"
  /\ nextId <= 2 * MaxIds
  /\ SEED_COMPONENTS' = [SEED_COMPONENTS EXCEPT ![seeding[r].at].id = nextId]
  /\ nextId' = nextId + 1
  /\ seeding' = [seeding EXCEPT ![r] =
        IF seeding[r].at = Len(SEED_COMPONENTS)
          THEN [@ EXCEPT !.pc = "execute"]
          ELSE [@ EXCEPT !.pc = "insert", !.at = @ + 1]]
  /\ resp' = NoReply
  /\ UNCHANGED <<projects, chat_sessions, schematics, pcb_designs, nextMsg,
                 users, pend, arrivals, agentVars, router, env, ready, clients,
                 llmCalls, apiResp, gemini_cache, user_profiles, skill,
                 components, flow, gemini_chat_sessions, fc, live, toolVars>>

\* insert_many: the ordered bulk insert of the dicts as they now are; it
\* stops at the first duplicate _id and raises, which seed_components does
\* not catch.
insert_many_execute(r) ==
  /\ seeding[r].pc = "execute"
  /\ LET dup == {i \in DOMAIN SEED_COMPONENTS :
                   \E d \in components : d.id = SEED_COMPONENTS[i].id}
         stop == IF dup = {} THEN Len(SEED_COMPONENTS) + 1
                 ELSE CHOOSE i \in dup : \A j \in dup : i <= j
     IN /\ components' = components \cup
             {[id |-> SEED_COMPONENTS[i].id, name |-> SEED_COMPONENTS[i].name] :
                i \in 1..(stop - 1)}
        /\ resp' = Reply("seed", "component", "none",
                         IF dup = {} THEN 200 ELSE 500, {}, FALSE)
  /\ seeding' = [seeding EXCEPT ![r] = NotSeeding]
  /\ UNCHANGED <<dbVars, users, pend, arrivals, agentVars, router, env, ready,
                 clients, llmCalls, apiResp, gemini_cache, user_profiles, skill,
                 SEED_COMPONENTS, flow,
                 gemini_chat_sessions, fc, live, toolVars>>

NextSeed ==
  \/ \E r \in Reqs : seed_components(r)
  \/ \E r \in Reqs : insert_many_check(r)
  \/ \E r \in Reqs : insert_many_assign(r)
  \/ \E r \in Reqs : insert_many_execute(r)

SpecSeed == InitMsg /\ [][NextSeed]_vars

\* C13: seeding is idempotent, concurrent calls included: however seed calls
\* overlap, the catalog holds each seed component at most once.
C13_SeedOnce ==
  \A d, e \in components : d.name = e.name => d = e

(***************************************************************************)
(* services/dual_agent.py generate_response and services/design_agent.py   *)
(* generate_design: generator, validator, refinement.                      *)
(***************************************************************************)
\* Everything but the services' module-level state.
baseVars == <<dbVars, users, reqVars, agentVars, router, env, ready, clients,
              llmCalls, apiResp, toolVars>>

\* if validation_result.get("status") == "FAIL"
NeedsRefinementAlways(status) == TRUE
NeedsRefinement(status) == status = "FAIL"

\* The generator call.  out: the model answers, reports 429, or fails
\* otherwise.  The Design agent in mock mode answers without a call; the
\* chat agent turns a 429 into its "System Busy" content, and any other
\* failure is the except clause's error content.
generator_call(r, agent, out) ==
  /\ flow[r].pc \in {"idle", "done"}
  /\ flow' = [flow EXCEPT ![r] =
       IF agent = "design" /\ llm = "mock"
         THEN [NoFlow EXCEPT !.agent = agent, !.pc = "done", !.content = "mock"]
       ELSE IF out = "text"
         THEN [NoFlow EXCEPT !.agent = agent, !.pc = "validate",
                             !.calls = <<"generate">>, !.content = "initial"]
       ELSE [NoFlow EXCEPT !.agent = agent, !.pc = "done",
                           !.calls = <<"generate">>,
                           !.content = IF agent = "dual" /\ out = "429"
                                       THEN "busy" ELSE "error"]]
  /\ UNCHANGED <<baseVars, gemini_cache, user_profiles, skill, components, SEED_COMPONENTS, seeding,
                 gemini_chat_sessions, fc, live>>

\* The validator call and the parse of its answer.  v: the verdict PASS or
\* FAIL, an answer that is not JSON (both parsers then return PASS), or a
\* failed call: the chat agent goes on with "PASS (Unverified)", the Design
\* agent ends in its except clause.  Without a refinement the initial
\* solution is returned.
validator_call(r, v) ==
  /\ flow[r].pc = "validate"
  /\ LET status == CASE v = "unparsable" -> "PASS"
                     [] v = "error" -> "PASS (Unverified)"
                     [] OTHER -> v
     IN flow' = [flow EXCEPT ![r] =
          IF v = "error" /\ flow[r].agent = "design"
            THEN [@ EXCEPT !.pc = "done", !.calls = Append(@, "validate"),
                           !.content = "error"]
            ELSE [@ EXCEPT !.pc = IF NeedsRefinement(status) THEN "refine"
                                  ELSE "done",
                           !.calls = Append(@, "validate"),
                           !.status = status]]
  /\ UNCHANGED <<baseVars, gemini_cache, user_profiles, skill, components, SEED_COMPONENTS, seeding,
                 gemini_chat_sessions, fc, live>>

\* The refinement call: its text is the final response, and the request
\* returns; a failed call ends in the except clause.
refinement_call(r, out) ==
  /\ flow[r].pc = "refine"
  /\ flow' = [flow EXCEPT ![r] =
       [@ EXCEPT !.pc = "done", !.calls = Append(@, "refine"),
                 !.content = IF out = "text" THEN "refined" ELSE "error"]]
  /\ UNCHANGED <<baseVars, gemini_cache, user_profiles, skill, components, SEED_COMPONENTS, seeding,
                 gemini_chat_sessions, fc, live>>

InitFlow ==
  /\ InitDb /\ InitReq /\ InitCfg
  /\ now = 0
  /\ sim_cache = {} /\ sim_request_times = <<>>
  /\ design_cache = {} /\ design_request_times = <<>>
  /\ issued = <<>> /\ agentResp = NoAnswer
  /\ llm \in {"mock", "live"}

NextFlow ==
  \/ \E r \in Reqs, agent \in {"dual", "design"}, out \in {"text", "429", "error"} :
        generator_call(r, agent, out)
  \/ \E r \in Reqs, v \in {"PASS", "FAIL", "unparsable", "error"} :
        validator_call(r, v)
  \/ \E r \in Reqs, out \in {"text", "error"} : refinement_call(r, out)

SpecFlow == InitFlow /\ [][NextFlow]_vars

\* C14: within one request the model calls are generate, then validate, then
\* at most one refinement; the refinement is made only on the verdict FAIL;
\* and the refined answer is what the request returns, after which no call
\* is made for that request.
C14_GenerateValidateRefineOnce ==
  /\ [] \A r \in Reqs :
       /\ flow[r].calls \in {<<>>, <<"generate">>, <<"generate", "validate">>,
                             <<"generate", "validate", "refine">>}
       /\ flow[r].pc = "refine" \/ flow[r].calls = <<"generate", "validate", "refine">>
            => flow[r].status = "FAIL"
       /\ flow[r].content = "refined"
            => flow[r].pc = "done" /\ flow[r].calls[Len(flow[r].calls)] = "refine"
  /\ [][\A r \in Reqs :
          flow[r].pc = "done" /\ flow'[r].calls # flow[r].calls
            => flow'[r].calls = <<"generate">> \/ flow'[r].calls = <<>>]_vars

\* C14's case: a request whose validator said FAIL returned the refined answer.
C14_Witness ==
  \E r \in Reqs : /\ flow[r].pc = "done" /\ flow[r].content = "refined"
                  /\ flow[r].status = "FAIL"

(***************************************************************************)
(* services/gemini_function_calling.py chat, functions/declarations.py and *)
(* services/function_executor.py: a chat call with tools.                  *)
(***************************************************************************)
\* FUNCTION_DECLARATIONS, by name; the keys of FunctionExecutor._functions
\* are the same names.
FUNCTION_DECLARATIONS ==
  {"analyze_circuit", "calculate_component_value", "fetch_datasheet",
   "fetch_lab_rule", "validate_circuit_solution", "generate_project_plan",
   "generate_learning_summary", "fetch_common_mistake",
   "get_user_learning_profile", "record_learning_event"}

get_declarations_for_mode(mode) ==
  CASE mode = "debug" ->
         {"analyze_circuit", "validate_circuit_solution", "fetch_datasheet",
          "fetch_common_mistake", "calculate_component_value", "fetch_lab_rule"}
    [] mode = "planning" ->
         {"generate_project_plan", "fetch_datasheet",
          "get_user_learning_profile", "calculate_component_value"}
    [] mode = "learning" ->
         {"generate_learning_summary", "record_learning_event",
          "fetch_common_mistake", "get_user_learning_profile"}
    [] OTHER -> FUNCTION_DECLARATIONS

\* max_turns = 5
max_turns == 5
\* while current_turn < max_turns
LoopUnbounded(current_turn) == TRUE
LoopContinues(current_turn) == current_turn < max_turns

\* FunctionExecutor.execute.  behaviour: the tool returns or raises.
executeUnguarded(function_name, behaviour) ==
  [error |-> FALSE, message |-> "none",
   raised |-> function_name \notin FUNCTION_DECLARATIONS \/ behaviour = "raises"]
execute(function_name, behaviour) ==
  IF function_name \notin FUNCTION_DECLARATIONS
    THEN [error |-> TRUE, message |-> "Unknown function", raised |-> FALSE]
  ELSE IF behaviour = "raises"
    THEN [error |-> TRUE, message |-> "str(e)", raised |-> FALSE]
  ELSE [error |-> FALSE, message |-> "none", raised |-> FALSE]

\* What a send_message gives back: text, a function call, a response without
\* parts, or an exception (a 429 after the retries included).
SendOutcomes == {"text", "function_call", "empty", "error"}
\* The functions the model asks for.
Requested == {"analyze_circuit", "generate_project_plan", "no_such_function"}

\* chat, up to its first await: the chat object of the session id is taken
\* from _chat_sessions, or made with the tools of this call's mode and kept;
\* the message is sent; the loop is entered.
chat(r, session_id, mode, out, fn) ==
  /\ fc[r].pc \in {"idle", "done"}
  /\ LET known == {s \in gemini_chat_sessions : s.session_id = session_id}
         made == [session_id |-> session_id,
                  tools |-> get_declarations_for_mode(mode)]
         session == IF known = {} THEN made ELSE CHOOSE s \in known : TRUE
         call == [NoCall EXCEPT !.session_id = session_id, !.mode = mode,
                                !.tools = session.tools, !.sends = 1]
     IN /\ gemini_chat_sessions' = gemini_chat_sessions \cup {session}
        /\ fc' = [fc EXCEPT ![r] =
             CASE out = "error" ->
                    [call EXCEPT !.pc = "done", !.final_response = "error"]
               [] out = "function_call" /\ LoopContinues(0) ->
                    [call EXCEPT !.pc = "execute", !.function_call = fn]
               [] OTHER ->
                    [call EXCEPT !.pc = "done",
                                 !.final_response =
                                    IF out = "text" THEN "text"
                                    ELSE "No response content generated."]]
  /\ UNCHANGED <<baseVars, gemini_cache, user_profiles, skill, components, SEED_COMPONENTS, seeding, flow, live>>

\* chat, from the return of execute_function: the result is sent to the
\* model, the turn is counted, and the loop goes round to the next tool
\* request or ends with the response.
chat_execute(r, behaviour, out, fn) ==
  /\ fc[r].pc = "execute"
  /\ LET result == execute(fc[r].function_call, behaviour)
         call == [fc[r] EXCEPT !.executed = <<fc[r].function_call, behaviour>>,
                               !.function_result = result]
     IN fc' = [fc EXCEPT ![r] =
          CASE result.raised ->
                 [call EXCEPT !.pc = "done", !.final_response = "error"]
            [] out = "error" ->
                 [call EXCEPT !.pc = "done", !.sends = @ + 1,
                              !.final_response = "error"]
            [] out = "function_call" /\ LoopContinues(fc[r].current_turn + 1) ->
                 [call EXCEPT !.current_turn = @ + 1, !.sends = @ + 1,
                              !.function_call = fn]
            [] OTHER ->
                 [call EXCEPT !.pc = "done", !.current_turn = @ + 1,
                              !.sends = @ + 1,
                              !.final_response =
                                 IF out = "text" THEN "text"
                                 ELSE "No response content generated."]]
  /\ UNCHANGED <<baseVars, gemini_cache, user_profiles, skill, components, SEED_COMPONENTS, seeding, flow,
                 gemini_chat_sessions, live>>

\* One chat call at a time, on one session id.
NextChat ==
  \/ \E mode \in {"debug", "planning", "learning", "all"}, out \in SendOutcomes, fn \in Requested :
        chat("r1", "s1", mode, out, fn)
  \/ \E behaviour \in {"returns", "raises"}, out \in SendOutcomes,
        fn \in Requested :
        chat_execute("r1", behaviour, out, fn)

\* The event loop runs a chat call that awaits a tool on to its next step.
SpecChat ==
  /\ InitMsg /\ [][NextChat]_vars
  /\ WF_vars(\E behaviour \in {"returns", "raises"}, out \in SendOutcomes,
                fn \in Requested : chat_execute("r1", behaviour, out, fn))

\* C15: a chat call goes round its loop at most max_turns times (one tool
\* execution and one further message to the model per turn, after the first
\* message), and it always ends with a response, also when the model asks
\* for a tool on every turn.
C15_LoopBoundedAndReturns ==
  /\ [] \A r \in Reqs :
          /\ fc[r].current_turn <= max_turns
          /\ fc[r].sends <= max_turns + 1
          /\ fc[r].pc = "done" => fc[r].final_response # "none"
  /\ \A r \in Reqs : (fc[r].pc = "execute") ~> (fc[r].pc = "done")

\* C15's case: the model asked for a tool on every turn and the call ended.
C15_Witness ==
  \E r \in Reqs : /\ fc[r].pc = "done" /\ fc[r].current_turn = max_turns
                  /\ fc[r].final_response = "No response content generated."

C18_ToolsOfThisCallsMode ==
  \A r \in Reqs :
     fc[r].pc # "idle" => fc[r].tools = get_declarations_for_mode(fc[r].mode)

(***************************************************************************)
(* The retry loops around a live call: api/chat.py chat_message,           *)
(* services/gemini_service.py generate, services/gemini_utils.py           *)
(* retry_gemini_call(_sync) as services/gemini_function_calling.py uses it.*)
(***************************************************************************)
\* max_retries of each loop.
max_retries(site) == IF site = "retry_gemini_call" THEN 5 ELSE 3

\* The slot's call after one more attempt that reported out.
Attempted(r, site, out) ==
  LET c == IF live[r].pc = "retry" THEN live[r] ELSE [NoLive EXCEPT !.site = site]
  IN [c EXCEPT !.calls = @ + 1, !.quota = @ /\ out = "429"]

\* chat_message (chat.py), the standard chat: one pass of
\* 'for attempt in range(max_retries)'.  A 429 sleeps and goes round, and on
\* the last attempt returns the quota notice; any other exception returns a
\* demo response with a note.
chat_message_attempt(r, out) ==
  /\ live[r].pc \in {"idle", "done"} \/ (live[r].pc = "retry" /\ live[r].site = "chat")
  /\ LET c == Attempted(r, "chat", out)
     IN live' = [live EXCEPT ![r] =
          CASE out = "ok" -> [c EXCEPT !.pc = "done", !.content = "text"]
            [] out = "429" /\ c.attempt < max_retries("chat") - 1 ->
                 [c EXCEPT !.pc = "retry", !.attempt = @ + 1]
            [] out = "429" ->
                 [c EXCEPT !.pc = "done", !.content = "API quota exceeded"]
            [] OTHER -> [c EXCEPT !.pc = "done", !.content = "demo response"]]
  /\ UNCHANGED <<baseVars, gemini_cache, user_profiles, skill, components, SEED_COMPONENTS, seeding, flow,
                 gemini_chat_sessions, fc>>

\* self._cache_ttl = 300
GeminiCacheTtl == 300
\* The ceiling on the entries of a cache: 100 in GeminiService._set_cached,
\* here small enough for a run to reach it.
MaxCacheEntries == 2

\* _get_cached: the response stored under the key, if younger than the TTL.
get_cached(cache, key, t) ==
  {cache[i].response : i \in {j \in DOMAIN cache :
      cache[j].key = key /\ t - cache[j].ts < GeminiCacheTtl}}

\* _set_cached: self._cache[key] = (response, now), the key keeping its place
\* if it was there; above the ceiling, the entry with the least timestamp
\* (the first of them in the dict's order) is deleted.
set_cached(cache, key, response, t) ==
  LET entry == [key |-> key, response |-> response, ts |-> t]
      at == {i \in DOMAIN cache : cache[i].key = key}
      put == IF at = {} THEN Append(cache, entry)
             ELSE [i \in DOMAIN cache |-> IF i \in at THEN entry ELSE cache[i]]
      oldest == CHOOSE i \in DOMAIN put : \A j \in DOMAIN put :
                   put[i].ts < put[j].ts \/ (put[i].ts = put[j].ts /\ i <= j)
  IN IF Len(put) > MaxCacheEntries
       THEN [i \in 1..(Len(put) - 1) |-> IF i < oldest THEN put[i] ELSE put[i + 1]]
       ELSE put

\* GeminiService.generate with a client, within its own rate limit.  At the
\* start the cache is asked (_get_cached deletes an expired entry of the
\* key); then one pass of 'for attempt in range(max_retries)': a success is
\* cached and returned; a 429 and an unknown error sleep and go round, a 400
\* breaks; when the loop is left the mock response is returned with the last
\* error attached.
generate_attempt(r, prompt, use_cache, out) ==
  /\ \/ live[r].pc \in {"idle", "done"}
     \/ /\ live[r].pc = "retry" /\ live[r].site = "generate"
        /\ prompt = live[r].key /\ use_cache = live[r].use_cache
  /\ LET starting == live[r].pc # "retry"
         kept == IF starting /\ use_cache
                 THEN SelectSeq(gemini_cache, LAMBDA e :
                        ~(e.key = prompt /\ now - e.ts >= GeminiCacheTtl))
                 ELSE gemini_cache
         c == [Attempted(r, "generate", out) EXCEPT !.key = prompt,
                                                    !.use_cache = use_cache]
     IN IF starting /\ use_cache /\ get_cached(gemini_cache, prompt, now) # {}
          THEN /\ live' = [live EXCEPT ![r] =
                    [NoLive EXCEPT !.site = "generate", !.pc = "done",
                                   !.content = "cached", !.key = prompt,
                                   !.use_cache = use_cache]]
               /\ UNCHANGED gemini_cache
          ELSE /\ live' = [live EXCEPT ![r] =
                    CASE out = "ok" -> [c EXCEPT !.pc = "done", !.content = "text"]
                      [] out # "400" /\ c.attempt < max_retries("generate") - 1 ->
                           [c EXCEPT !.pc = "retry", !.attempt = @ + 1]
                      [] OTHER ->
                           [c EXCEPT !.pc = "done", !.content = "mock response"]]
               /\ gemini_cache' = IF out = "ok" /\ use_cache
                                  THEN set_cached(kept, prompt, "text", now)
                                  ELSE kept
  /\ UNCHANGED <<baseVars, user_profiles, skill, components, SEED_COMPONENTS,
                 seeding, flow, gemini_chat_sessions, fc>>

\* retry_gemini_call_sync around send_message, inside chat's try: one pass
\* of 'for attempt in range(max_retries)'.  ResourceExhausted sleeps and
\* goes round, and on the last attempt is raised; any other exception is
\* raised at once; chat's except clause turns what is raised into its error
\* response.
retry_gemini_call_attempt(r, out) ==
  /\ \/ live[r].pc \in {"idle", "done"}
     \/ (live[r].pc = "retry" /\ live[r].site = "retry_gemini_call")
  /\ LET c == Attempted(r, "retry_gemini_call", out)
     IN live' = [live EXCEPT ![r] =
          CASE out = "ok" -> [c EXCEPT !.pc = "done", !.content = "text"]
            [] out = "429" /\ c.attempt < max_retries("retry_gemini_call") - 1 ->
                 [c EXCEPT !.pc = "retry", !.attempt = @ + 1]
            [] OTHER -> [c EXCEPT !.pc = "done",
                                  !.content = "I encountered an error"]]
  /\ UNCHANGED <<baseVars, gemini_cache, user_profiles, skill, components, SEED_COMPONENTS, seeding, flow,
                 gemini_chat_sessions, fc>>

NextLive ==
  \/ \E r \in Reqs, out \in {"ok", "429", "400", "error"} : chat_message_attempt(r, out)
  \/ \E r \in Reqs, use_cache \in BOOLEAN, out \in {"ok", "429", "400", "error"} :
        generate_attempt(r, "p1", use_cache, out)
  \/ \E r \in Reqs, out \in {"ok", "429", "400", "error"} :
        retry_gemini_call_attempt(r, out)

SpecLive == InitMsg /\ [][NextLive]_vars

\* C16: when the LLM service reports a rate-limit or quota condition on every
\* attempt, the live call is attempted at most the loop's retry count and
\* the request returns the "quota exceeded, try again later" message.
C16_QuotaMessageAfterRetries ==
  \A r \in Reqs :
     /\ live[r].calls <= max_retries(live[r].site)
     /\ live[r].pc = "done" /\ live[r].calls > 0 /\ live[r].quota
          => live[r].content = "API quota exceeded"

(***************************************************************************)
(* SpecCache: the response caches of the core client and of the agents,    *)
(* filled with more keys than the ceiling while the clock moves.           *)
(***************************************************************************)
Prompts == {"p1", "p2", "p3", "p4"}

\* One of the services per run, live.
InitCache ==
  /\ InitDb /\ InitReq /\ IdleCfg
  /\ now = 0
  /\ sim_cache = {} /\ sim_request_times = <<>>
  /\ design_cache = {} /\ design_request_times = <<>>
  /\ issued = <<>> /\ agentResp = NoAnswer
  /\ llm = "live"
  /\ router \in {"core", "simulation", "design"}

NextCache ==
  \/ \E prompt \in Prompts, out \in {"ok", "429"} :
        router = "core" /\ generate_attempt("r1", prompt, TRUE, out)
  \/ \E desc \in Prompts :
        Recent <= MaxRecent /\ simulate(desc, "auto", TRUE, "d1")
  \/ \E q \in Prompts :
        Recent <= MaxRecent /\ agent_generate_design(q, TRUE, "d1")
  \/ \E t \in Instants : Tick(t)

SpecCache == InitCache /\ [][NextCache]_vars

\* C19: each response cache -- the core client's, the Design agent's and the
\* Simulation agent's -- holds a bounded number of entries.
C19_CachesBounded ==
  /\ Len(gemini_cache) <= MaxCacheEntries
  /\ Cardinality(design_cache) <= MaxCacheEntries
  /\ Cardinality(sim_cache) <= MaxCacheEntries

(***************************************************************************)
(* services/memory_service.py: the stored skill level.                     *)
(***************************************************************************)
\* level_order.get(level, 0)
level_order(level) ==
  CASE level = "intermediate" -> 1 [] level = "advanced" -> 2 [] OTHER -> 0

\* update_skill_level, to its next await: get_user_profile's find_one (a
\* profile that is not there is made with the default level and has to be
\* saved first), the level the indicators give, and the comparison with the
\* profile in hand.
update_skill_level(r, user_id, complexity, technical, optimization) ==
  /\ skill[r].pc \in {"idle", "done"}
  /\ LET new_level ==
           IF complexity >= 8 /\ technical /\ optimization THEN "advanced"
           ELSE IF complexity >= 5 \/ technical THEN "intermediate"
           ELSE "beginner"
         found == user_profiles[user_id] # "absent"
         profile == IF found THEN user_profiles[user_id] ELSE "beginner"
     IN skill' = [skill EXCEPT ![r] =
          [pc |-> IF ~found THEN "create"
                  ELSE IF level_order(new_level) > level_order(profile)
                       THEN "save" ELSE "done",
           user_id |-> user_id, profile |-> profile, new_level |-> new_level]]
  /\ UNCHANGED <<baseVars, gemini_cache, user_profiles, components,
                 SEED_COMPONENTS, seeding, flow, gemini_chat_sessions, fc, live>>

\* _save_profile: update_one({"user_id": ...}, {"$set": profile.to_dict()},
\* upsert=True) with the profile object in hand -- the new default profile
\* of get_user_profile, after which the levels are compared, or the profile
\* with its level raised, after which update_skill_level returns.
save_profile(r) ==
  /\ skill[r].pc \in {"create", "save"}
  /\ IF skill[r].pc = "create"
       THEN /\ user_profiles' = [user_profiles EXCEPT ![skill[r].user_id] =
                                   skill[r].profile]
            /\ skill' = [skill EXCEPT ![r].pc =
                 IF level_order(skill[r].new_level) > level_order(skill[r].profile)
                 THEN "save" ELSE "done"]
       ELSE /\ user_profiles' = [user_profiles EXCEPT ![skill[r].user_id] =
                                   skill[r].new_level]
            /\ skill' = [skill EXCEPT ![r].pc = "done",
                                      ![r].profile = skill[r].new_level]
  /\ UNCHANGED <<baseVars, gemini_cache, components, SEED_COMPONENTS, seeding,
                 flow, gemini_chat_sessions, fc, live>>

NextSkill ==
  \/ \E r \in Reqs, user_id \in Users, complexity \in {3, 5, 8},
        technical \in BOOLEAN, optimization \in BOOLEAN :
        update_skill_level(r, user_id, complexity, technical, optimization)
  \/ \E r \in Reqs : save_profile(r)

SpecSkill == InitMsg /\ [][NextSkill]_vars

\* C20: a skill evaluation only ever raises a user's stored skill level; no
\* step lowers it, also when evaluations of the same user interleave.
C20_SkillNeverDemoted ==
  [][\A u \in Users :
        level_order(user_profiles'[u]) >= level_order(user_profiles[u])]_vars

(***************************************************************************)
(* The recorded mistakes of a learning profile: memory_service.py keeps    *)
(* them in the stored profile, functions/learning_functions.py in the      *)
(* process.                                                                *)
(***************************************************************************)
\* Everything but the learning profiles and the analysis tools.
appVars == <<dbVars, users, reqVars, agentVars, router, env, ready, clients,
             llmCalls, apiResp, svcVars>>

\* profile["common_mistakes"][-10:]
MistakeCap == 10
\* The mistake texts a list has seen: one more text than the cap.  The texts
\* are numbered in the order in which the list first receives them.
Mistakes == 1..(MistakeCap + 1)
\* The elements of a list.
Elements(list) == {list[i] : i \in DOMAIN list}
\* The next text that is new to a list.
Fresh(list) ==
  IF list = <<>> THEN 1
  ELSE (CHOOSE m \in Elements(list) : \A k \in Elements(list) : k <= m) + 1

\* list[-n:]
LastN(list, n) ==
  IF Len(list) <= n THEN list ELSE SubSeq(list, Len(list) - n + 1, Len(list))

\* MemoryService.record_mistake: update_one({"user_id": user_id},
\* {"$addToSet": {"common_mistakes": mistake}, ...}, upsert=True).
record_mistake(user_id, mistake) ==
  /\ common_mistakes' = [common_mistakes EXCEPT ![user_id] =
        IF mistake \in Elements(@) THEN @ ELSE Append(@, mistake)]
  /\ UNCHANGED <<appVars, learning_profiles, temp_netlist, spice, vision, ask,
                 circuit_data, analysis_result,
                 gemini_request_times, gen>>

\* LearningFunctions.record_learning_event, as far as the mistakes go: the
\* branch of event_type "mistake" with details that are set and not in the
\* list yet.  details 0 is None.
record_learning_event(user_id, event_type, details) ==
  /\ learning_profiles' = [learning_profiles EXCEPT ![user_id] =
        IF event_type = "mistake" /\ details # 0 /\ details \notin Elements(@)
          THEN LastN(Append(@, details), MistakeCap)
          ELSE @]
  /\ UNCHANGED <<appVars, common_mistakes, temp_netlist, spice, vision, ask,
                 circuit_data, analysis_result,
                 gemini_request_times, gen>>

NextLearn ==
  \/ \E mistake \in Mistakes :
        mistake <= Fresh(common_mistakes["alice"])
        /\ record_mistake("alice", mistake)
  \/ \E event_type \in {"mistake", "correct_answer"}, details \in Mistakes \cup {0} :
        details <= Fresh(learning_profiles["alice"])
        /\ record_learning_event("alice", event_type, details)

SpecLearn == InitMsg /\ [][NextLearn]_vars

\* C21: the list of recorded mistakes of a user's learning profile never
\* grows past the cap, whatever mistakes are recorded.
C21_MistakesCapped ==
  \A u \in Users :
    /\ Len(common_mistakes[u]) <= MistakeCap
    /\ Len(learning_profiles[u]) <= MistakeCap

(***************************************************************************)
(* services/simulation_agent.py simulate: a reply that is no JSON.         *)
(***************************************************************************)
\* C22: when the live model's reply to a simulation request cannot be
\* parsed as JSON, the request returns the canned dataset as a successful
\* mock result, as it does in mock mode.
C22_UnparsableFallsBackToMock ==
  [][\A desc \in Descriptions, st \in {"auto", "analog"}, use_cache \in BOOLEAN :
        (/\ simulate(desc, st, use_cache, "unparsable")
         /\ llm = "live"
         /\ ~agentResp'.from_cache
         /\ agentResp'.error # "rate limit")
        => (agentResp'.success /\ agentResp'.is_mock /\ agentResp'.data = "mock")]_vars

(***************************************************************************)
(* ai-engine/spice_service.py and the /simulate endpoint of                *)
(* ai-engine/main.py.  The endpoint calls the wrapper without an await, so *)
(* one run is in progress at a time; its steps are the file and process    *)
(* operations, each of which may raise.                                    *)
(***************************************************************************)
\* The start of ai-engine/main.py: the LLM client, made when a key is set,
\* and SpiceService.__init__ with its _check_ngspice.
check_ngspice(found, client) ==
  /\ spice.pc = "new"
  /\ spice' = [spice EXCEPT !.pc = "idle", !.has_ngspice = found,
                            !.client = client]
  /\ UNCHANGED <<appVars, common_mistakes, learning_profiles, temp_netlist, vision, ask,
                 circuit_data, analysis_result,
                 gemini_request_times, gen>>

\* _generate_mock_data: the data points by the directive the netlist holds.
\* A netlist is named by its directive here.
generate_mock_data(netlist) ==
  CASE netlist = ".tran" -> "time, voltage"
    [] netlist = ".ac" -> "frequency, magnitude_db"
    [] OTHER -> "step, voltage"

\* simulate_circuit up to the wrapper's open(temp_netlist, "w"): the netlist
\* of the request or, without one, the netlist generated from the
\* description (a comment line without a client or when the call fails,
\* "" when the model returned no text); 400 without either; the mock data
\* when there is no ngspice.  Opening creates or empties the file.
simulate_circuit(netlist, description, generated) ==
  /\ spice.pc = "idle"
  /\ LET n == IF netlist # "" THEN netlist
              ELSE IF description = "" THEN ""
              ELSE IF ~spice.client THEN "* Gemini client not available"
              ELSE generated
     IN IF n = ""
          THEN /\ spice' = [spice EXCEPT !.netlist = "", !.result = "400",
                                         !.data = "none", !.ai_analysis = "none"]
               /\ UNCHANGED temp_netlist
          ELSE IF ~spice.has_ngspice
                 THEN /\ spice' = [spice EXCEPT !.netlist = n, !.result = "mock",
                                                !.data = generate_mock_data(n),
                                                !.ai_analysis = "none"]
                      /\ UNCHANGED temp_netlist
                 ELSE /\ spice' = [spice EXCEPT !.pc = "write", !.netlist = n,
                                                !.result = "none", !.data = "none",
                                                !.ai_analysis = "none"]
                      /\ temp_netlist' = ""
  /\ UNCHANGED <<appVars, common_mistakes, learning_profiles, vision, ask,
                 circuit_data, analysis_result,
                 gemini_request_times, gen>>

\* f.write(netlist), inside "with" and before "try": it writes the text, or
\* raises (a character the file's encoding does not have, a full disk)
\* with nothing or a part of the text in the file, and the exception
\* leaves run_simulation and the handler.
write_netlist(written) ==
  /\ spice.pc = "write"
  /\ IF written = "whole"
       THEN /\ temp_netlist' = spice.netlist
            /\ spice' = [spice EXCEPT !.pc = "run"]
       ELSE /\ temp_netlist' = written
            /\ spice' = [spice EXCEPT !.pc = "idle", !.result = "raised"]
  /\ UNCHANGED <<appVars, common_mistakes, learning_profiles, vision, ask,
                 circuit_data, analysis_result,
                 gemini_request_times, gen>>

\* subprocess.run inside "try": exit code zero, another exit code, or an
\* exception, which "except Exception" turns into an error result.
subprocess_run(outcome) ==
  /\ spice.pc = "run"
  /\ spice' = [spice EXCEPT !.pc = "finally", !.result = outcome]
  /\ UNCHANGED <<appVars, common_mistakes, learning_profiles, temp_netlist, vision, ask,
                 circuit_data, analysis_result,
                 gemini_request_times, gen>>

\* The "finally" of run_simulation: os.remove if the file exists; then the
\* rest of simulate_circuit, the analysis of a successful run.
remove_netlist(analysis) ==
  /\ spice.pc = "finally"
  /\ temp_netlist' = "absent"
  /\ spice' = [spice EXCEPT !.pc = "idle",
                            !.ai_analysis =
                               IF spice.result # "success" THEN "none"
                               ELSE IF ~spice.client
                                      THEN "Gemini analysis unavailable."
                                      ELSE analysis]
  /\ UNCHANGED <<appVars, common_mistakes, learning_profiles, vision, ask,
                 circuit_data, analysis_result,
                 gemini_request_times, gen>>

NextSpice ==
  \/ \E found \in BOOLEAN, client \in BOOLEAN : check_ngspice(found, client)
  \/ \E netlist \in {"", ".tran", ".ac", ".op"}, description \in {"", "d1"},
        generated \in {"", ".tran", "* Error generating netlist"} :
        simulate_circuit(netlist, description, generated)
  \/ \E written \in {"whole", "", "part"} : write_netlist(written)
  \/ \E outcome \in {"success", "nonzero", "error"} : subprocess_run(outcome)
  \/ \E analysis \in {"text", "Error analyzing results"} : remove_netlist(analysis)

SpecSpice == InitMsg /\ [][NextSpice]_vars

\* C23: once a SPICE run is over -- it returned a result, or an exception
\* raised after the file was created ended it -- the temporary netlist file
\* does not exist.
C23_NetlistFileRemoved ==
  (spice.pc = "idle" /\ spice.result \in {"success", "nonzero", "error", "raised"})
    => temp_netlist = "absent"

(***************************************************************************)
(* api/vision.py over services/vision_agent.py.  The handlers share no     *)
(* state, so each is one step from request to response.                    *)
(***************************************************************************)
\* Content types a request may declare, as <<type, subtype>>.
ContentTypes == {<<"image", "png">>, <<"image", "jpeg">>,
                 <<"application", "pdf">>, <<"text", "plain">>}
\* content_type.startswith("image/")
IsImage(content_type) == content_type[1] = "image"
\* AnalysisType and the values a request may send for it.
AnalysisTypes == {"component_extraction", "schematic_to_netlist",
                  "pcb_defect_detection", "circuit_recognition", "general"}
\* AnalysisType(analysis_type.lower()), GENERAL on a ValueError.
analysis_enum(analysis_type) ==
  IF analysis_type \in AnalysisTypes THEN analysis_type ELSE "general"

\* VisionAgentService.analyze_image: the mock analysis, or the live call
\* with the bytes and the MIME type as given; out is the model's reply.
vision_analyze_image(mime_type, out) ==
  IF llm = "mock" THEN "mock"
  ELSE CASE out = "json" -> "parsed"
         [] out = "unparsable" -> "raw text"
         [] OTHER -> "Error"

\* The response of a vision endpoint.
VisionReply(endpoint, mime_type, analysis_type, status, analysed, description) ==
  /\ vision' = [endpoint |-> endpoint, mime_type |-> mime_type,
                analysis_type |-> analysis_type, status |-> status,
                analysed |-> analysed, description |-> description]
  /\ UNCHANGED <<appVars, common_mistakes, learning_profiles, temp_netlist, spice,
                 ask, circuit_data, analysis_result,
                 gemini_request_times, gen>>

\* POST /api/vision/analyze: analyze_image with the uploaded file.
analyze_image_upload(content_type, analysis_type, out) ==
  IF ~IsImage(content_type)
    THEN VisionReply("analyze", content_type, "none", 400, FALSE, "none")
    ELSE VisionReply("analyze", content_type, analysis_enum(analysis_type), 200,
                     TRUE, vision_analyze_image(content_type, out))

\* POST /api/vision/analyze-base64 and analyze_image_from_base64: the text
\* after a comma, decoded; a text that b64decode rejects ends in the
\* handler's "except Exception".
analyze_base64_image(image_data, analysis_type, mime_type, out) ==
  IF image_data = "bad padding"
    THEN VisionReply("analyze-base64", mime_type, analysis_enum(analysis_type),
                     500, FALSE, "none")
    ELSE VisionReply("analyze-base64", mime_type, analysis_enum(analysis_type),
                     200, TRUE, vision_analyze_image(mime_type, out))

\* POST /api/vision/extract-components, /detect-issues and
\* /schematic-to-netlist, each with its own analysis type.
analyze_as(endpoint, content_type, out) ==
  IF ~IsImage(content_type)
    THEN VisionReply(endpoint, content_type, "none", 400, FALSE, "none")
    ELSE VisionReply(endpoint, content_type,
                     CASE endpoint = "extract-components" -> "component_extraction"
                       [] endpoint = "detect-issues" -> "pcb_defect_detection"
                       [] OTHER -> "schematic_to_netlist",
                     200, TRUE, vision_analyze_image(content_type, out))

VisionOutputs == {"json", "unparsable", "error"}

NextVision ==
  \/ \E content_type \in ContentTypes, analysis_type \in AnalysisTypes \cup {"other"},
        out \in VisionOutputs :
        analyze_image_upload(content_type, analysis_type, out)
  \/ \E image_data \in {"base64", "data:...,base64", "bad padding"},
        analysis_type \in AnalysisTypes \cup {"other"},
        mime_type \in ContentTypes, out \in VisionOutputs :
        analyze_base64_image(image_data, analysis_type, mime_type, out)
  \/ \E endpoint \in {"extract-components", "detect-issues", "schematic-to-netlist"},
        content_type \in ContentTypes, out \in VisionOutputs :
        analyze_as(endpoint, content_type, out)

SpecVision == InitFlow /\ [][NextVision]_vars

\* C24: a request to an analysis endpoint of the vision router that declares
\* a content type that is no image type is answered with a client error,
\* and no analysis runs for it.
C24_NonImageRejected ==
  (vision.endpoint # "none" /\ ~IsImage(vision.mime_type))
    => (vision.status \in 400..499 /\ ~vision.analysed)

(***************************************************************************)
(* api/pcb.py ask_pcb_question.  A question is the set of the keywords it  *)
(* holds, which is all the handler reads of it.                            *)
(***************************************************************************)
\* Keywords the handler looks for: the first and the last of each branch.
AskKeywords == {"voltage", "regulator", "boot", "reset", "sensor", "dht"}
\* The keys of TROUBLESHOOT_RESPONSES.
TROUBLESHOOT_RESPONSES == {"led", "temperature", "sensor", "display", "default"}
\* DEMO_MODE = os.getenv("DEMO_MODE", "true").lower() == "true"
PcbDemoMode(e) == (IF e.DEMO_MODE = "" THEN "true" ELSE e.DEMO_MODE) = "true"
\* The if/elif chain of the demo branch: the key it looks up.
AskBucket(question) ==
  IF question \cap {"voltage", "power", "regulator"} # {} THEN "voltage"
  ELSE IF question \cap {"boot", "startup", "reset"} # {} THEN "boot"
  ELSE IF question \cap {"sensor", "i2c", "spi", "dht"} # {} THEN "sensor"
  ELSE "default"

\* ask_pcb_question.  In demo mode the lookup of a key the dict does not
\* have raises KeyError, which nothing catches.  Otherwise genai.Client()
\* and the call are inside "try": without a key, or when the call fails,
\* the default playbook is returned; out is what the call leads to.
ask_pcb_question(question, out) ==
  /\ ask' =
       IF PcbDemoMode(env)
         THEN IF AskBucket(question) \in TROUBLESHOOT_RESPONSES
                THEN [question |-> question, status |-> 200,
                      ai_response |-> AskBucket(question), mode |-> "demo"]
                ELSE [question |-> question, status |-> 500,
                      ai_response |-> "none", mode |-> "none"]
         ELSE IF Or(env.GOOGLE_API_KEY, env.GEMINI_API_KEY) # "" /\ out = "llm"
                THEN [question |-> question, status |-> 200,
                      ai_response |-> "text", mode |-> "ai"]
                ELSE [question |-> question, status |-> 200,
                      ai_response |-> "default", mode |-> "fallback"]
  /\ UNCHANGED <<appVars, common_mistakes, learning_profiles, temp_netlist, spice,
                 vision, circuit_data, analysis_result,
                 gemini_request_times, gen>>

\* The process environment of a run: DEMO_MODE unset, "true" or "false",
\* with or without a key.
InitAsk ==
  /\ InitDb /\ InitReq /\ InitAgents
  /\ router = "none"
  /\ env \in [GEMINI_API_KEY : {"", "key"}, GOOGLE_API_KEY : {""},
              DEMO_MODE : {"", "true", "false"}]
  /\ ready = {} /\ clients = {} /\ llmCalls = {} /\ apiResp = NoApi

NextAsk ==
  \E question \in SUBSET AskKeywords, out \in LlmOutcomes :
     ask_pcb_question(question, out)

SpecAsk == InitAsk /\ [][NextAsk]_vars

\* C25: every question is answered, with the playbook of its keyword bucket,
\* whatever the configuration.
C25_PlaybookByBucket ==
  ask.status # 0 =>
    /\ ask.status = 200
    /\ ask.ai_response = AskBucket(ask.question)

(***************************************************************************)
(* The circuit reasoning engine: detect_circuit_type of                    *)
(* ai-engine/circuit_parser/circuit_types.py and the op-amp routine of     *)
(* fault_detection/analyzer.py.                                            *)
(***************************************************************************)
\* is_connected_between, _is_connected on a node list.
is_connected(component, node) == node \in Elements(component.nodes)
is_connected_between(component, node1, node2) ==
  is_connected(component, node1) /\ is_connected(component, node2)

\* detect_opamp_type
detect_opamp_type(opamp, resistors) ==
  LET non_inv == opamp.non_inverting
      inv == opamp.inverting
      output == opamp.output
      has_feedback == \E i \in DOMAIN resistors :
                         is_connected_between(resistors[i], inv, output)
  IN IF output = inv \/ (non_inv # "" /\ inv = "") THEN "opamp_buffer"
     ELSE IF has_feedback /\ (non_inv = "GND" \/ non_inv = "0")
            THEN "opamp_inverting"
            ELSE "opamp_non_inverting"

\* detect_rc_filter_type, called with resistors and capacitors present.
detect_rc_filter_type == "rc_lowpass"

\* detect_circuit_type of circuit_types.py: the if/elif chain, in its order.
detect_circuit_type_of(c) ==
  LET resistors == c.resistors # <<>>
      capacitors == "Capacitor" \in c.others
      inductors == "Inductor" \in c.others
      transistors == "Transistor" \in c.others
  IN IF c.opamp.present THEN detect_opamp_type(c.opamp, c.resistors)
     ELSE IF "Regulator" \in c.others THEN "linear_regulator"
     ELSE IF "555" \in c.others THEN "555_timer"
     ELSE IF transistors /\ ~capacitors
            THEN IF "LED" \in c.others \/ "Diode" \in c.others
                   THEN "transistor_switch" ELSE "transistor_amplifier"
     ELSE IF "IC" \in c.others THEN "logic_gate"
     ELSE IF resistors /\ capacitors /\ ~inductors THEN detect_rc_filter_type
     ELSE IF inductors /\ capacitors THEN "lc_filter"
     ELSE IF resistors /\ inductors /\ capacitors THEN "rlc_filter"
     ELSE IF resistors /\ "LED" \in c.others THEN "led_circuit"
     ELSE IF Len(c.resistors) = 2 /\ ~capacitors /\ ~inductors
            THEN "voltage_divider"
     ELSE "unknown"

\* The component types detect_circuit_type looks for besides OpAmp and
\* Resistor.
OtherTypes == {"Capacitor", "Inductor", "Transistor", "Diode", "LED",
               "Regulator", "555", "IC"}
\* Circuits without an op-amp: up to three resistors and any of the other
\* types.
PassiveCircuits ==
  {Circuit(FALSE, "", "", "", resistors, others, <<>>, <<>>, <<>>, "dict") :
     resistors \in {<<>>, <<Resistor("in", "n1", 10)>>,
                    <<Resistor("in", "n1", 10), Resistor("n1", "GND", 10)>>,
                    <<Resistor("in", "n1", 10), Resistor("n1", "n2", 10),
                      Resistor("n2", "GND", 10)>>},
     others \in SUBSET OtherTypes}

\* A circuit arrives, once in a run.
receive_circuit(c) ==
  /\ circuit_data = NoCircuit
  /\ circuit_data' = c
  /\ UNCHANGED <<appVars, common_mistakes, learning_profiles, temp_netlist, spice,
                 vision, ask, analysis_result,
                 gemini_request_times, gen>>

\* detect_circuit_type(circuit_data)
classify ==
  /\ circuit_data # NoCircuit
  /\ analysis_result' = [by |-> "detect_circuit_type",
                         circuit_type |-> detect_circuit_type_of(circuit_data),
                         faults |-> {}, raised |-> FALSE]
  /\ UNCHANGED <<appVars, common_mistakes, learning_profiles, temp_netlist, spice,
                 vision, ask, circuit_data, gemini_request_times, gen>>

\* self._get_supply_voltage(id) or default: parse_value of the supply's
\* value, and the default when there is no such supply or its value is 0.
SupplyOr(supply, default) ==
  IF supply = <<>> \/ supply[1] = 0 THEN default ELSE supply[1]
\* The first index of a set of indices, 0 for none: next(..., None).
FirstOf(indices) ==
  IF indices = {} THEN 0 ELSE CHOOSE i \in indices : \A j \in indices : i <= j

\* The saturation check: expected_vout = gain * input_voltage with
\* gain = -(rf_val / rin_val), compared with the rails; rin_val > 0, so
\* both sides are multiplied by it.
SaturationSwapped(rf_val, rin_val, input_voltage, v_pos_val, v_neg_val) ==
  IF -(rf_val * input_voltage) > v_pos_val * rin_val
    THEN {"Negative Saturation"}
  ELSE IF -(rf_val * input_voltage) < v_neg_val * rin_val
    THEN {"Positive Saturation"}
  ELSE {}
Saturation(rf_val, rin_val, input_voltage, v_pos_val, v_neg_val) ==
  IF -(rf_val * input_voltage) > v_pos_val * rin_val
    THEN {"Positive Saturation"}
  ELSE IF -(rf_val * input_voltage) < v_neg_val * rin_val
    THEN {"Negative Saturation"}
  ELSE {}

\* rf: the first resistor connected to both the output node and the
\* inverting node; rin: the first other resistor on the inverting node.
feedback_resistor(c) ==
  FirstOf({i \in DOMAIN c.resistors :
             /\ is_connected(c.resistors[i], c.opamp.output)
             /\ is_connected(c.resistors[i], c.opamp.inverting)})
input_resistor(c) ==
  FirstOf({i \in DOMAIN c.resistors :
             /\ is_connected(c.resistors[i], c.opamp.inverting)
             /\ i # feedback_resistor(c)})

\* _analyze_opamp_circuit: the faults it appends, and whether it raises --
\* the division by a zero rin_val, or measured_outputs.get on None after
\* the saturation check.
analyze_opamp_circuit(c) ==
  LET v_pos_val == SupplyOr(c.supplies.VCC_POS, 15)
      v_neg_val == SupplyOr(c.supplies.VCC_NEG, -15)
      input_voltage == IF c.supplies.VIN = <<>> THEN 0 ELSE c.supplies.VIN[1]
      rf == feedback_resistor(c)
      rin == input_resistor(c)
  IN IF rf = 0 \/ rin = 0 \/ c.opamp.non_inverting # "GND"
       THEN [faults |-> {}, raised |-> FALSE]
     ELSE IF c.resistors[rin].value = 0 \/ c.measured_outputs = "None"
       THEN [faults |-> {}, raised |-> TRUE]
     ELSE [faults |-> Saturation(c.resistors[rf].value, c.resistors[rin].value,
                                 input_voltage, v_pos_val, v_neg_val),
           raised |-> FALSE]

\* CircuitAnalyzer.analyze on a circuit with an op-amp: the detected type
\* starts with "opamp", so the op-amp routine runs.
analyze ==
  /\ circuit_data # NoCircuit
  /\ circuit_data.opamp.present
  /\ LET r == analyze_opamp_circuit(circuit_data)
     IN analysis_result' =
          [by |-> "analyze",
           circuit_type |-> IF r.raised THEN "none"
                            ELSE detect_circuit_type_of(circuit_data),
           faults |-> r.faults, raised |-> r.raised]
  /\ UNCHANGED <<appVars, common_mistakes, learning_profiles, temp_netlist, spice,
                 vision, ask, circuit_data, gemini_request_times, gen>>

\* Op-amp stages: the node names of the op-amp, an input and a feedback
\* resistor in either order or one of them alone, the supplies given or
\* not, the measured outputs given or not.
OpampCircuits ==
  LET Rin(v) == Resistor("in", "n1", v)
      Rf(v) == Resistor("n1", "out", v)
  IN {Circuit(TRUE, non_inv, inv, output, resistors, {}, pos, neg, vin, measured) :
        non_inv \in {"GND", "0", "in"}, inv \in {"n1", ""},
        output \in {"out", "n1"},
        resistors \in {<<>>} \cup {<<Rin(a)>> : a \in {0, 10}}
                      \cup {<<Rf(b)>> : b \in {10, 100}}
                      \cup {<<Rin(a), Rf(b)>> : a \in {0, 10}, b \in {10, 100}}
                      \cup {<<Rf(b), Rin(a)>> : a \in {0, 10}, b \in {10, 100}},
        pos \in {<<>>, <<0>>, <<15>>},
        neg \in {<<>>, <<0>>, <<-15>>},
        vin \in {<<>>, <<2>>, <<-2>>},
        measured \in {"None", "dict"}}

NextEngine ==
  \/ circuit_data = NoCircuit
     /\ \E c \in PassiveCircuits \cup OpampCircuits : receive_circuit(c)
  \/ classify
  \/ analyze

SpecEngine == InitMsg /\ [][NextEngine]_vars

\* C26: a circuit without an op-amp, regulator, 555, transistor or logic
\* component that has resistors, inductors and capacitors is classified as
\* rlc_filter.
C26_RlcClassified ==
  ( /\ analysis_result.by = "detect_circuit_type"
    /\ ~circuit_data.opamp.present
    /\ circuit_data.others \cap {"Regulator", "555", "Transistor", "IC"} = {}
    /\ circuit_data.resistors # <<>>
    /\ {"Inductor", "Capacitor"} \subseteq circuit_data.others )
  => analysis_result.circuit_type = "rlc_filter"

\* ---- C27: the saturation check of an inverting op-amp stage ----
\* An analysed inverting stage: the op-amp routine ran to its end on a
\* circuit whose feedback and input resistors were found and whose
\* non-inverting input is the node "GND".
InvertingStageAnalysed ==
  /\ analysis_result.by = "analyze"
  /\ ~analysis_result.raised
  /\ feedback_resistor(circuit_data) # 0
  /\ input_resistor(circuit_data) # 0
  /\ circuit_data.opamp.non_inverting = "GND"
StageRf == circuit_data.resistors[feedback_resistor(circuit_data)].value
StageRin == circuit_data.resistors[input_resistor(circuit_data)].value
StageVin ==
  IF circuit_data.supplies.VIN = <<>> THEN 0 ELSE circuit_data.supplies.VIN[1]
\* The rails as the circuit gives them, +15 V and -15 V when unspecified.
GivenPos ==
  IF circuit_data.supplies.VCC_POS = <<>> THEN 15
  ELSE circuit_data.supplies.VCC_POS[1]
GivenNeg ==
  IF circuit_data.supplies.VCC_NEG = <<>> THEN -15
  ELSE circuit_data.supplies.VCC_NEG[1]
\* The rails as the analyzer takes them: a rail of 0 V counts as unspecified.
TakenPos == IF GivenPos = 0 THEN 15 ELSE GivenPos
TakenNeg == IF GivenNeg = 0 THEN -15 ELSE GivenNeg
\* The example stages: Rf = 100k or 10k over Rin = 10k, 2 V in, rails +-15 V.
ExampleStage(rf_val) ==
  /\ StageRf = rf_val /\ StageRin = 10 /\ StageVin = 2
  /\ GivenPos = 15 /\ GivenNeg = -15

GeminiMaxRequests == 3
\* self._rate_limit_window = 60
GeminiRateWindow == 60
\* The wall clock runs to here.
MaxClock == 65
\* What a tool action of this section leaves alone.
coreFrame == <<dbVars, users, reqVars, sim_cache, sim_request_times,
               design_cache, design_request_times, issued, agentResp, llm,
               router, env, ready, clients, llmCalls, apiResp, svcVars,
               common_mistakes, learning_profiles, temp_netlist, spice,
               vision, ask, circuit_data, analysis_result>>

\* _check_rate_limit's cleaning: [t for t in self._request_times if t > cutoff]
gemini_clean(times, t) == SelectSeq(times, LAMBDA x : x > t - GeminiRateWindow)
\* The timestamps of the list that lie in the 60 seconds ending at t.
gemini_recent(times, t) == Len(gemini_clean(times, t))
\* wait_time: (2 ** attempt) * 5 after a 429, (2 ** attempt) * 2 after
\* another error.
wait_time(out, attempt) ==
  IF out = "429" THEN (2 ^ attempt) * 5 ELSE (2 ^ attempt) * 2

\* One pass of 'for attempt in range(max_retries)' after _record_request:
\* a response is returned; a 400 breaks and the mock response is returned;
\* a 429 and any other error sleep.
generate_pass(attempt, out) ==
  CASE out = "ok" ->
         [NoGen EXCEPT !.pc = "done", !.attempt = attempt, !.result = "content"]
    [] out = "400" ->
         [NoGen EXCEPT !.pc = "done", !.attempt = attempt, !.last_error = out,
                       !.result = "mock"]
    [] OTHER ->
         [NoGen EXCEPT !.pc = "sleeping", !.attempt = attempt,
                       !.wake = now + wait_time(out, attempt),
                       !.last_error = out]

\* GeminiService.generate of a service with a client, up to its first
\* await: a cached response is returned at once; _check_rate_limit cleans
\* the list and refuses at the ceiling; otherwise the first pass of the
\* loop records the request and calls the model.
generate(r, cached, out) ==
  /\ gen[r].pc \in {"idle", "done"}
  /\ LET cleaned == gemini_clean(gemini_request_times, now)
     IN IF cached
          THEN /\ gen' = [gen EXCEPT ![r] =
                    [NoGen EXCEPT !.pc = "done", !.result = "cached"]]
               /\ UNCHANGED gemini_request_times
        ELSE IF ~(Len(cleaned) < GeminiMaxRequests)
          THEN /\ gen' = [gen EXCEPT ![r] =
                    [NoGen EXCEPT !.pc = "done", !.result = "rate_limited"]]
               /\ gemini_request_times' = cleaned
        ELSE /\ gen' = [gen EXCEPT ![r] = generate_pass(0, out)]
             /\ gemini_request_times' = Append(cleaned, now)
  /\ UNCHANGED <<coreFrame, now>>

\* generate after asyncio.sleep: the next pass of the loop records the
\* request and calls the model, without asking _check_rate_limit; after the
\* last pass the mock response is returned with the last error.
generate_resume(r, out) ==
  /\ gen[r].pc = "sleeping"
  /\ now >= gen[r].wake
  /\ IF gen[r].attempt + 1 < max_retries("generate")
       THEN /\ gen' = [gen EXCEPT ![r] = generate_pass(gen[r].attempt + 1, out)]
            /\ gemini_request_times' = Append(gemini_request_times, now)
       ELSE /\ gen' = [gen EXCEPT ![r] =
                 [gen[r] EXCEPT !.pc = "done", !.result = "mock"]]
            /\ UNCHANGED gemini_request_times
  /\ UNCHANGED <<coreFrame, now>>

\* The moments the clock moves to: the end of a sleep, or a whole window on.
WakeTimes ==
  {gen[r].wake : r \in {q \in Reqs : gen[q].pc = "sleeping"}}
     \cup {now + GeminiRateWindow}

NextCore ==
  \/ \E r \in Reqs, cached \in BOOLEAN, out \in {"ok", "429", "400", "error"} :
        generate(r, cached, out)
  \/ \E r \in Reqs, out \in {"ok", "429", "400", "error"} : generate_resume(r, out)
  \/ \E t \in WakeTimes : t <= MaxClock /\ Tick(t)

SpecCore == InitMsg /\ [][NextCore]_vars

\* C28: the request timestamps of the core client that lie within the 60
\* seconds ending now never number more than the ceiling.
C28_WindowWithinCeiling ==
  gemini_recent(gemini_request_times, now) <= GeminiMaxRequests

\* ---- C29: delete_message on a message id the session does not hold ----
\* C29: a delete_message answered with success has removed a message from
\* the caller's session; when the id is not there the answer is Not-Found.
C29_SuccessOnlyWhenRemoved ==
  (resp.op = "delete_message" /\ resp.status = 200) => resp.removed

\* ---- C30: an update that interleaves with a delete of the same record ----
\* No step brings back a session or schematic whose id was already handed
\* out and is no longer stored.
NoRecordRecreated ==
  \A id \in Ids : id < nextId =>
     /\ ById(chat_sessions, id) = {} => ById(chat_sessions', id) = {}
     /\ ById(schematics, id) = {} => ById(schematics', id) = {}
\* C30: every answer of update_session and update_schematic, also of one
\* that runs while the same record is deleted, is the updated record or
\* Not-Found, never a server error, and no step re-creates a deleted record.
C30_UpdateAnswersRecordOrNotFound ==
  [][/\ (resp'.op = "update" /\ resp'.kind \in {"session", "schematic"})
          => resp'.status \in {200, 404}
     /\ NoRecordRecreated]_vars

====
